---- MODULE Spec2Model ----
(***************************************************************************)
(* A model of the shell-integration and scrollback-retention logic of      *)
(* Terminal (src/main/src/terminal/Terminal.ts): the application-mode      *)
(* handlers (start / data / end), the bracket start / end handlers, the    *)
(* frame decision, and the frame-cap and line-cap enforcement.             *)
(*                                                                         *)
(* Strings are tuples of one-character strings, so that trim, slice,       *)
(* split, indexOf and parseInt are computed as JavaScript computes them.   *)
(* null is the tuple <<"null">>, which is no string of characters.         *)
(***************************************************************************)
EXTENDS Integers, Sequences, FiniteSets, TLC

\* ------------------------------------------------------------------ bounds

\* The most rows the emulator writes in one behaviour.
MaxRowsWritten == 4
\* The most application-mode sequences started in one behaviour.
MaxSequences == 2
\* The same two bounds where any byte stream is fed.
MaxProtocolRows == 1
MaxProtocolSequences == 2
\* The most data chunks delivered inside one application-mode sequence.
MaxChunks == 1
\* The data chunks of one sequence in the protocol's specification
MaxProtocolChunks == 2
\* The most lines of output the frame decision is asked about.
MaxDecisionLines == 2

\* ----------------------------------------------------------------- strings

Null == <<"null">>
EmptyStr == <<>>

IsSpace(c) == c = " "
IsDigit(c) == c \in {"0", "1", "2", "3", "4", "5", "6", "7", "8", "9"}

DigitValue(c) ==
    CASE c = "0" -> 0 [] c = "1" -> 1 [] c = "2" -> 2 [] c = "3" -> 3
      [] c = "4" -> 4 [] c = "5" -> 5 [] c = "6" -> 6 [] c = "7" -> 7
      [] c = "8" -> 8 [] c = "9" -> 9

RECURSIVE TrimStart(_)
TrimStart(s) ==
    IF s # <<>> /\ IsSpace(Head(s)) THEN TrimStart(Tail(s)) ELSE s

RECURSIVE TrimEnd(_)
TrimEnd(s) ==
    IF s # <<>> /\ IsSpace(s[Len(s)])
      THEN TrimEnd(SubSeq(s, 1, Len(s) - 1))
      ELSE s

\* String.prototype.trim
Trim(s) == TrimEnd(TrimStart(s))

\* String.prototype.indexOf(" "): the 0-based index of the first space, or -1
IndexOfSpace(s) ==
    IF \E i \in 1..Len(s) : s[i] = " "
      THEN (CHOOSE i \in 1..Len(s) : s[i] = " " /\ \A j \in 1..(i - 1) : s[j] # " ") - 1
      ELSE -1

\* String.prototype.slice(start): a negative start counts from the end
Slice(s, start) ==
    LET from == IF start < 0
                  THEN (IF Len(s) + start < 0 THEN 0 ELSE Len(s) + start)
                  ELSE (IF start > Len(s) THEN Len(s) ELSE start)
    IN SubSeq(s, from + 1, Len(s))

\* String.prototype.split(" ")[0]: the text before the first space
FirstWord(s) ==
    IF IndexOfSpace(s) = -1 THEN s ELSE SubSeq(s, 1, IndexOfSpace(s))

\* String.prototype.split(/\s+/): the pieces between runs of whitespace, the
\* empty pieces before a leading run and after a trailing run included.
RECURSIVE SplitWs(_, _, _)
SplitWs(s, cur, inRun) ==
    IF s = <<>> THEN <<cur>>
    ELSE IF IsSpace(Head(s))
      THEN (IF inRun THEN SplitWs(Tail(s), cur, TRUE)
                     ELSE <<cur>> \o SplitWs(Tail(s), <<>>, TRUE))
      ELSE SplitWs(Tail(s), Append(cur, Head(s)), FALSE)

Split(s) == SplitWs(s, <<>>, FALSE)

IsPrefix(p, s) == Len(p) <= Len(s) /\ SubSeq(s, 1, Len(p)) = p

IsSubstring(p, s) ==
    \E i \in 0..(Len(s) - Len(p)) : SubSeq(s, i + 1, i + Len(p)) = p

\* new RegExp(pattern).test(s), for the patterns the configurations of this
\* model use: literal text, optionally anchored at the start with ^.
RegExpTest(pattern, s) ==
    IF pattern # <<>> /\ Head(pattern) = "^"
      THEN IsPrefix(Tail(pattern), s)
      ELSE IsSubstring(pattern, s)

\* Number.parseInt(s, 10): leading white space skipped, an optional sign, then
\* the longest run of digits; NaN when there is no digit.
IntOf(n) == [kind |-> "int", v |-> n]
NaN == [kind |-> "nan", v |-> 0]
NoCode == [kind |-> "unset", v |-> 0]

RECURSIVE DigitsValue(_, _)
DigitsValue(s, acc) ==
    IF s # <<>> /\ IsDigit(Head(s))
      THEN DigitsValue(Tail(s), acc * 10 + DigitValue(Head(s)))
      ELSE acc

ParseInt(s) ==
    LET t == TrimStart(s)
        neg == t # <<>> /\ Head(t) = "-"
        u == IF t # <<>> /\ Head(t) \in {"-", "+"} THEN Tail(t) ELSE t
    IN IF u # <<>> /\ IsDigit(Head(u))
         THEN IntOf(IF neg THEN 0 - DigitsValue(u, 0) ELSE DigitsValue(u, 0))
         ELSE NaN

\* The digit of a value 0..9
DigitChar(d) ==
    CASE d = 0 -> "0" [] d = 1 -> "1" [] d = 2 -> "2" [] d = 3 -> "3"
      [] d = 4 -> "4" [] d = 5 -> "5" [] d = 6 -> "6" [] d = 7 -> "7"
      [] d = 8 -> "8" [] OTHER -> "9"

RECURSIVE NaturalToString(_)
NaturalToString(n) ==
    IF n < 10 THEN <<DigitChar(n)>>
    ELSE Append(NaturalToString(n \div 10), DigitChar(n % 10))

\* "" + n for an integer n
NumberToString(n) ==
    IF n < 0 THEN <<"-">> \o NaturalToString(0 - n) ELSE NaturalToString(n)

\* The byte 0x03 of a string, the interrupt
ETX == "\\x03"

\* input.indexOf("\x03"), from 1, 0 for none
RECURSIVE IndexOfETX(_, _)
IndexOfETX(input, i) ==
    IF i > Len(input) THEN 0
    ELSE IF input[i] = ETX THEN i
    ELSE IndexOfETX(input, i + 1)

\* input.substring(i) for the position after the one numbered i from 1
Substring(input, i) == SubSeq(input, i + 1, Len(input))

\* ------------------------------------------------------------ configuration

\* A command-line action of the configuration (CommandLineAction).
Cla(match, matchType, frameRule, frameRuleLines) ==
    [match |-> match, matchType |-> matchType, frameRule |-> frameRule,
     frameRuleLines |-> frameRuleLines]

\* #commandLineActionMatches
CommandLineActionMatches(command, cla) ==
    LET cleanCommandLine == Trim(command)
        commandParts == Split(Trim(command))
        matcherParts == Split(cla.match)
    IN IF cla.matchType = "name"
         THEN \A i \in 1..Len(matcherParts) :
                  /\ i <= Len(commandParts)
                  /\ matcherParts[i] = commandParts[i]
         ELSE RegExpTest(cla.match, cleanCommandLine)

\* The outcome of one frame rule for a known or unknown (-1) line count.
FrameRuleSays(frameRule, frameRuleLines, linesOfOutput) ==
    CASE frameRule = "always_frame" -> TRUE
      [] frameRule = "never_frame" -> FALSE
      [] frameRule = "frame_if_lines" ->
             linesOfOutput # -1 /\ linesOfOutput > frameRuleLines

\* The for loop without its return: the last entry that matches decides.
LastMatchingAction(commandLine, actions) ==
    IF \E i \in 1..Len(actions) : CommandLineActionMatches(commandLine, actions[i])
      THEN CHOOSE i \in 1..Len(actions) :
               /\ CommandLineActionMatches(commandLine, actions[i])
               /\ \A j \in (i + 1)..Len(actions) :
                      ~CommandLineActionMatches(commandLine, actions[j])
      ELSE 0

\* The entry of the list the for loop of #commandNeedsFrame returns from: the
\* first one that matches, 0 when none does.
DecidingAction(commandLine, actions) ==
    IF \E i \in 1..Len(actions) : CommandLineActionMatches(commandLine, actions[i])
      THEN CHOOSE i \in 1..Len(actions) :
               /\ CommandLineActionMatches(commandLine, actions[i])
               /\ \A j \in 1..(i - 1) : ~CommandLineActionMatches(commandLine, actions[j])
      ELSE 0

\* #commandNeedsFrame(commandLine, linesOfOutput = -1) under configuration cfg
CommandNeedsFrame(cfg, commandLine, linesOfOutput) ==
    IF commandLine = Null \/ Trim(commandLine) = <<>>
      THEN FALSE
      ELSE LET i == DecidingAction(commandLine, cfg.commandLineActions)
           IN IF i # 0
                THEN FrameRuleSays(cfg.commandLineActions[i].frameRule,
                                   cfg.commandLineActions[i].frameRuleLines,
                                   linesOfOutput)
                ELSE FrameRuleSays(cfg.frameRule, cfg.frameRuleLines, linesOfOutput)

\* -------------------------------------------------------------------- state

VARIABLES
    config,          \* the configuration read through #configDatabase
    rows,            \* size.rows of #computeTerminalSize, the emulator's height
    blockFrames,     \* #blockFrames: the frames' ids, oldest first
    frames,          \* the BlockFrame objects: id -> [kind, block, title]
    blocks,          \* the Block objects: id -> [kind, sb, commandLine, ...]
    nextId,          \* the next object id
    screen,          \* emulator: the rows above the cursor row
    cursorLine,      \* emulator: the unfinished row under the cursor, 0 if none
    pendingSb,       \* emulator: rows scrolled off and not yet rendered
    nextRow,         \* the next row id
    emuAppMode,      \* emulator: inside an application-mode sequence
    applicationMode,            \* #applicationMode
    applicationModeData,        \* #applicationModeData
    bracketStyle,               \* #bracketStyle
    lastCommandLine,            \* #lastCommandLine
    lastCommandTerminalRow,     \* #lastCommandTerminalRow
    lastCommandTerminalViewer,  \* #lastCommandTerminalViewer: a frame id
    environment,     \* the EXTRATERM_* variables of environment
    timerPending,    \* #enforceScrollbackSizeLater has been triggered
    event,           \* the last handler that ran, its input and its outcome
    sequences,       \* application-mode sequences started so far
    chunks,          \* data chunks delivered in the current sequence
    cmd,             \* the bracketed command under observation
    cookie,          \* #cookie
    received,        \* the data chunks of the current sequence, concatenated
    visualConfig,    \* #terminalVisualConfig is set
    columns,         \* size.columns of #computeTerminalSize
    termRows,        \* #rows
    termColumns,     \* #columns
    emuSize,         \* emulator: its size, <<columns, rows>>
    pty,             \* #pty is set
    ptySize,         \* pty: the size last given to it, <<>> if none
    ptyLater,        \* the doLater of setPty is waiting
    frameFinder,     \* #frameFinder: [present, known]
    inputStreamFilters,  \* #inputStreamFilters: the uploader of each filter
    uploads,         \* the BulkFileUploader objects: id -> state
    feed,            \* emulator: the batch in flight and the chunks queued
    flow,            \* flow control: the buffer size the emulator reported
                     \* last and the size the pty was permitted last
    resizeGuard,     \* #resizeGuard
    resizing,        \* the size of the resizeTerminalArea in progress,
                     \* <<columns, rows>>, <<>> if none is
    disposal         \* dispose: whether it was called, how often onDispose
                     \* fired and how often pty.destroy was called

vars == <<config, rows, blockFrames, frames, blocks, nextId, screen, cursorLine,
          pendingSb, nextRow, emuAppMode, applicationMode, applicationModeData,
          bracketStyle, lastCommandLine, lastCommandTerminalRow,
          lastCommandTerminalViewer, environment, timerPending, event,
          sequences, chunks, cmd, cookie, received, visualConfig, columns,
          termRows, termColumns, emuSize, pty, ptySize, ptyLater, frameFinder,
          inputStreamFilters, uploads, feed, flow, resizeGuard,
          resizing, disposal>>

\* The size of the terminal and its pty, the emulator's queue of chunks and
\* the flow control, which the application-mode handlers and the timer
\* leave alone.
sizeVars == <<visualConfig, columns, termRows, termColumns, emuSize, pty,
              ptySize, ptyLater, frameFinder, feed, flow, resizeGuard,
              resizing, disposal>>

\* dispose has not been called.
NoDisposal == [called |-> FALSE, fired |-> 0, destroyed |-> 0]

\* ApplicationMode
APPLICATION_MODE_NONE == 0
APPLICATION_MODE_OUTPUT_BRACKET_START == 2
APPLICATION_MODE_OUTPUT_BRACKET_END == 3
APPLICATION_MODE_REQUEST_FRAME == 4
APPLICATION_MODE_SHOW_FILE == 5

\* No object: the null of a frame's block and of a frame reference.
NoObject == 0

\* The part of the state the handlers read and write, as one record, so that
\* a handler is a function from record to record and a thrown TypeError
\* ("thrown") cuts the rest of the handler short.  "capReached" notes that
\* one of the two enforcements found something to evict; "dl" and "ptyOut"
\* collect the calls made on #downloadHandler and the texts written to the
\* pty while the handler runs.
Cur ==
    [bf |-> blockFrames, frames |-> frames, blocks |-> blocks, nextId |-> nextId,
     screen |-> screen, cursorLine |-> cursorLine, pendingSb |-> pendingSb,
     nextRow |-> nextRow,
     appMode |-> applicationMode, appData |-> applicationModeData,
     bracketStyle |-> bracketStyle, lastCommandLine |-> lastCommandLine,
     lastCommandTerminalRow |-> lastCommandTerminalRow,
     lastCommandTerminalViewer |-> lastCommandTerminalViewer,
     env |-> environment, timerPending |-> timerPending, thrown |-> FALSE,
     capReached |-> FALSE, cookie |-> cookie,
     filters |-> inputStreamFilters, uploads |-> uploads,
     dl |-> <<>>, ptyOut |-> <<>>]

Store(s) ==
    /\ blockFrames' = s.bf
    /\ frames' = s.frames
    /\ blocks' = s.blocks
    /\ nextId' = s.nextId
    /\ screen' = s.screen
    /\ cursorLine' = s.cursorLine
    /\ pendingSb' = s.pendingSb
    /\ nextRow' = s.nextRow
    /\ applicationMode' = s.appMode
    /\ applicationModeData' = s.appData
    /\ bracketStyle' = s.bracketStyle
    /\ lastCommandLine' = s.lastCommandLine
    /\ lastCommandTerminalRow' = s.lastCommandTerminalRow
    /\ lastCommandTerminalViewer' = s.lastCommandTerminalViewer
    /\ environment' = s.env
    /\ timerPending' = s.timerPending
    /\ cookie' = s.cookie
    /\ inputStreamFilters' = s.filters
    /\ uploads' = s.uploads
    /\ UNCHANGED sizeVars

Throw(s) == [s EXCEPT !.thrown = TRUE]

CapReached(s) == [s EXCEPT !.capReached = TRUE]

\* ------------------------------------------------------------------ objects

TerminalBlockObj(emu) ==
    [kind |-> "terminal", sb |-> <<>>, commandLine |-> Null,
     returnCode |-> NoCode, emu |-> emu, disposed |-> FALSE, deleted |-> 0]

ExtensionBlockObj ==
    [kind |-> "extension", sb |-> <<>>, commandLine |-> Null,
     returnCode |-> NoCode, emu |-> FALSE, disposed |-> FALSE, deleted |-> 0]

FrameObj(kind, block, title) == [kind |-> kind, block |-> block, title |-> title]

\* frame.getBlock() of frame id f
BlockOf(s, f) == s.frames[f].block

\* block instanceof TerminalBlock, for the block of frame f (null is not)
HoldsTerminalBlock(s, f) ==
    BlockOf(s, f) # NoObject /\ s.blocks[BlockOf(s, f)].kind = "terminal"

\* block.getScrollbackLength() of block b
ScrollbackLength(s, b) == Len(s.blocks[b].sb)

\* ------------------------------------------------------- scrollback caps

RemoveAt(seq, i) == SubSeq(seq, 1, i - 1) \o SubSeq(seq, i + 1, Len(seq))

\* Array.prototype.findIndex(bf => bf.frame === frame): 0-based, -1 if absent
FindIndex(s, frame) ==
    IF \E i \in 1..Len(s.bf) : s.bf[i] = frame
      THEN (CHOOSE i \in 1..Len(s.bf) : s.bf[i] = frame) - 1
      ELSE -1

\* #removeFrameFromScrollArea that splices the newest frame out of the list,
\* whichever frame it was given
RemoveFrameFromScrollAreaNewest(s, frame) ==
    IF BlockOf(s, frame) = NoObject \/ FindIndex(s, frame) = -1
      THEN Throw(s)
      ELSE [s EXCEPT !.bf = RemoveAt(s.bf, Len(s.bf))]

\* #removeFrameFromScrollArea: frame.getBlock().setParent(null) throws on a
\* frame without a block, before the frame is spliced out of #blockFrames.
RemoveFrameFromScrollArea(s, frame) ==
    IF BlockOf(s, frame) = NoObject \/ FindIndex(s, frame) = -1
      THEN Throw(s)
      ELSE [s EXCEPT !.bf = RemoveAt(s.bf, FindIndex(s, frame) + 1)]

\* The scan of #enforceScrollbackLinesSize, from the newest frame back:
\* while (blockIndex >= 0 && currentHeight < maxScrollbackLines)
RECURSIVE LinesScan(_, _, _, _)
LinesScan(s, blockIndex, currentHeight, maxScrollbackLines) ==
    IF blockIndex >= 0 /\ currentHeight < maxScrollbackLines
      THEN LinesScan(s, blockIndex - 1,
                     IF HoldsTerminalBlock(s, s.bf[blockIndex + 1])
                       THEN currentHeight
                            + ScrollbackLength(s, BlockOf(s, s.bf[blockIndex + 1]))
                       ELSE currentHeight,
                     maxScrollbackLines)
      ELSE [blockIndex |-> blockIndex, currentHeight |-> currentHeight]

\* TerminalBlock.deleteTopLines(lineCount) on block b; "deleted" counts the
\* rows the block has lost this way.
DeleteTopLines(s, b, lineCount) ==
    [s EXCEPT !.blocks[b].sb = SubSeq(@, lineCount + 1, Len(@)),
              !.blocks[b].deleted = @ + lineCount]

\* The block at the boundary loses every row it has.
TrimBoundaryBlockWhole(s, blockIndex, lineCount) ==
    IF HoldsTerminalBlock(s, s.bf[blockIndex + 1])
      THEN DeleteTopLines(s, BlockOf(s, s.bf[blockIndex + 1]),
                          ScrollbackLength(s, BlockOf(s, s.bf[blockIndex + 1])))
      ELSE s

\* The block at the boundary loses its lineCount oldest rows, and the mark of
\* the last command moves with them when that block is the last one.
TrimBoundaryBlock(s, blockIndex, lineCount) ==
    IF HoldsTerminalBlock(s, s.bf[blockIndex + 1])
      THEN [DeleteTopLines(s, BlockOf(s, s.bf[blockIndex + 1]), lineCount)
              EXCEPT !.lastCommandTerminalRow =
                  IF blockIndex = Len(s.bf) - 1 /\ @ # -1
                    THEN (IF @ - lineCount > 0 THEN @ - lineCount ELSE 0)
                    ELSE @]
      ELSE s

\* while (blockIndex >= 0) { remove #blockFrames[0]; blockIndex--; }
RECURSIVE RemoveHeadFrames(_, _)
RemoveHeadFrames(s, n) ==
    IF n <= 0 \/ s.thrown THEN s
    ELSE IF s.bf = <<>> THEN Throw(s)
    ELSE RemoveHeadFrames(RemoveFrameFromScrollArea(s, s.bf[1]), n - 1)

\* #enforceScrollbackLinesSize after its scan: scan.blockIndex + 1 is the
\* block at the boundary, the frames before it are removed.
EnforceLinesAfterScan(s, scan, maxScrollbackLines) ==
    IF scan.currentHeight < maxScrollbackLines THEN s
    ELSE IF scan.blockIndex + 2 > Len(s.bf) THEN Throw(CapReached(s))
    ELSE RemoveHeadFrames(
             TrimBoundaryBlock(CapReached(s), scan.blockIndex + 1,
                               scan.currentHeight - maxScrollbackLines),
             scan.blockIndex + 1)

\* #enforceScrollbackLinesSize(maxScrollbackLines)
EnforceScrollbackLinesSize(s, maxScrollbackLines) ==
    EnforceLinesAfterScan(
        s, LinesScan(s, Len(s.bf) - 1, 0 - rows, maxScrollbackLines),
        maxScrollbackLines)

\* The scan of #enforceScrollbackFrameSize:
\* while (blockIndex > 0 && currentHeight < size.rows)
RECURSIVE FramesScan(_, _, _)
FramesScan(s, blockIndex, currentHeight) ==
    IF blockIndex > 0 /\ currentHeight < rows
      THEN FramesScan(s, blockIndex - 1,
                      IF HoldsTerminalBlock(s, s.bf[blockIndex + 1])
                        THEN currentHeight
                             + ScrollbackLength(s, BlockOf(s, s.bf[blockIndex + 1]))
                        ELSE currentHeight)
      ELSE blockIndex

\* targetFrame.getBlock().dispose(), once the frame has left the list
DisposeBlockOf(s, targetFrame) ==
    IF s.thrown THEN s
    ELSE [s EXCEPT !.blocks[BlockOf(s, targetFrame)].disposed = TRUE]

\* while (chopCount > 0) { remove #blockFrames[0]; dispose its block; }
RECURSIVE ChopHeadFrames(_, _)
ChopHeadFrames(s, chopCount) ==
    IF chopCount <= 0 \/ s.thrown THEN s
    ELSE IF s.bf = <<>> THEN Throw(s)
    ELSE ChopHeadFrames(
             DisposeBlockOf(RemoveFrameFromScrollArea(s, s.bf[1]), s.bf[1]),
             chopCount - 1)

\* #enforceScrollbackFrameSize after its scan
EnforceFramesAfterScan(s, blockIndex, maxScrollbackFrames) ==
    IF blockIndex > maxScrollbackFrames
      THEN ChopHeadFrames(CapReached(s), blockIndex - maxScrollbackFrames)
      ELSE s

\* #enforceScrollbackFrameSize(maxScrollbackFrames)
EnforceScrollbackFrameSize(s, maxScrollbackFrames) ==
    EnforceFramesAfterScan(s, FramesScan(s, Len(s.bf) - 1, 0), maxScrollbackFrames)

\* ----------------------------------------------------------------- emulator

\* The blocks that show the emulator (TerminalBlock.setEmulator(emulator)).
Attached(s) == {b \in DOMAIN s.blocks : s.blocks[b].emu}

\* The emulator's render event: the debounced frame-cap timer is triggered,
\* and a block that shows the emulator appends the rows scrolled off since
\* the last render.
RenderAppend(s) ==
    [s EXCEPT !.timerPending = TRUE,
              !.pendingSb = <<>>,
              !.blocks = [b \in DOMAIN s.blocks |->
                            IF s.blocks[b].emu
                              THEN [s.blocks[b] EXCEPT !.sb = @ \o s.pendingSb]
                              ELSE s.blocks[b]]]

\* The render event, and the block's onDidAppendScrollbackLines when rows were
\* appended, whose listener (#createTerminalBlock) enforces the line cap.
Render(s) ==
    IF s.pendingSb # <<>> /\ Attached(s) # {}
      THEN EnforceScrollbackLinesSize(RenderAppend(s), config.scrollbackMaxLines)
      ELSE RenderAppend(s)

\* emulator.moveRowsAboveCursorToScrollback(); emulator.flushRenderQueue()
MoveRowsAboveCursorToScrollback(s) ==
    Render([s EXCEPT !.pendingSb = @ \o s.screen, !.screen = <<>>])

\* emulator.newLine(); emulator.carriageReturn(): the row under the cursor is
\* finished; on the last row of the screen the top row scrolls off and waits
\* for the next render.
EmuNewLine(s) ==
    IF Len(s.screen) + 1 > rows - 1
      THEN [s EXCEPT !.screen = Tail(Append(@, s.cursorLine)), !.cursorLine = 0,
                     !.pendingSb = Append(@, Head(Append(s.screen, s.cursorLine)))]
      ELSE [s EXCEPT !.screen = Append(@, s.cursorLine), !.cursorLine = 0]

\* #moveCursorToFreshLine: cursorX is not 0 and the row has text
MoveCursorToFreshLine(s) ==
    IF s.cursorLine # 0 THEN EmuNewLine(s) ELSE s

\* emulator.getCursorRow()
CursorRow(s) == Len(s.screen)

\* ------------------------------------------------------------------- frames

\* #createFramedTerminalBlock, then appendBlockFrame of it: a SpacerFrame
\* (id s.nextId) holding a new TerminalBlock (id s.nextId + 1) that shows the
\* emulator.
AppendFramedTerminalBlock(s) ==
    [s EXCEPT !.frames = (s.nextId :> FrameObj("spacer", s.nextId + 1, Null)) @@ @,
              !.blocks = ((s.nextId + 1) :> TerminalBlockObj(TRUE)) @@ @,
              !.nextId = @ + 2,
              !.bf = Append(@, s.nextId)]

\* lastTerminalBlock.setEmulator(null) of #closeLastTerminalFrame
DetachLastBlock(s) ==
    IF s.thrown THEN s
    ELSE IF s.bf # <<>> /\ HoldsTerminalBlock(s, s.bf[Len(s.bf)])
      THEN [s EXCEPT !.blocks[BlockOf(s, s.bf[Len(s.bf)])].emu = FALSE]
      ELSE s

\* #closeLastTerminalFrame without moveRowsAboveCursorToScrollback: the rows
\* on the screen stay in the emulator.
CloseLastTerminalFrameNoFlush(s) == DetachLastBlock(s)

\* #closeLastTerminalFrame without setEmulator(null): the last terminal block
\* goes on showing the emulator.
CloseLastTerminalFrameAttached(s) == MoveRowsAboveCursorToScrollback(s)

\* #closeLastTerminalFrame
CloseLastTerminalFrame(s) == DetachLastBlock(MoveRowsAboveCursorToScrollback(s))

\* #findEmptyDecoratedFrame: for (let i=len-1; i !==0; i--), so that index 0
\* is never looked at.
FindEmptyDecoratedFrame(s) ==
    LET hits == {i \in 2..Len(s.bf) :
                    /\ s.frames[s.bf[i]].kind = "decorated"
                    /\ BlockOf(s, s.bf[i]) = NoObject}
    IN IF hits = {} THEN NoObject
       ELSE s.bf[CHOOSE i \in hits : \A j \in hits : j <= i]

\* #findLastBareTerminalBlockFrame
FindLastBareTerminalBlockFrame(s) ==
    LET hits == {i \in 1..Len(s.bf) :
                    /\ s.frames[s.bf[i]].kind = "spacer"
                    /\ HoldsTerminalBlock(s, s.bf[i])}
    IN IF hits = {} THEN NoObject
       ELSE s.bf[CHOOSE i \in hits : \A j \in hits : j <= i]

\* Array.prototype.splice(start): the index the elements leave the array
\* from; a negative start counts from the end.
SpliceFrom(seq, start) ==
    IF start < 0
      THEN (IF Len(seq) + start < 0 THEN 0 ELSE Len(seq) + start)
      ELSE (IF start > Len(seq) THEN Len(seq) ELSE start)

\* TerminalBlock.takeScrollbackFrom(startLine) of block b: the rows taken
TakenScrollback(s, b, startLine) ==
    SubSeq(s.blocks[b].sb, SpliceFrom(s.blocks[b].sb, startLine) + 1,
           Len(s.blocks[b].sb))

\* TerminalBlock.takeScrollbackFrom(startLine) of block b: the rows left
LeftScrollback(s, b, startLine) ==
    SubSeq(s.blocks[b].sb, 1, SpliceFrom(s.blocks[b].sb, startLine))

\* #blockFrames.splice(index, 1): index -1 takes the last element
SpliceFrame(s, frame) ==
    IF FindIndex(s, frame) = -1
      THEN SubSeq(s.bf, 1, Len(s.bf) - 1)
      ELSE RemoveAt(s.bf, FindIndex(s, frame) + 1)

\* #frameWithExistingDecoratedFrame once the last terminal frame is closed:
\* the SpacerFrame gives its TerminalBlock up and leaves the list, the block
\* gets the command line and the exit code and goes to the DecoratedFrame.
MoveBlockIntoFrame(s, terminalBlockFrame, decoratedFrame, returnCode) ==
    IF s.thrown THEN s
    ELSE AppendFramedTerminalBlock(
        [s EXCEPT
           !.frames[terminalBlockFrame].block = NoObject,
           !.bf = SpliceFrame(s, terminalBlockFrame),
           !.blocks[BlockOf(s, terminalBlockFrame)].commandLine = s.lastCommandLine,
           !.blocks[BlockOf(s, terminalBlockFrame)].returnCode = ParseInt(returnCode),
           !.frames[decoratedFrame].block = BlockOf(s, terminalBlockFrame)])

\* #frameWithExistingDecoratedFrame
FrameWithExistingDecoratedFrame(s, decoratedFrame, returnCode) ==
    IF FindLastBareTerminalBlockFrame(s) = NoObject THEN Throw(s)
    ELSE MoveBlockIntoFrame(CloseLastTerminalFrame(s),
                            FindLastBareTerminalBlockFrame(s),
                            decoratedFrame, returnCode)

\* The test with the exit code compared as a number (returnCode !== 0): a
\* string is never the number 0, so every command is framed.
CommandShouldBeFramedAlways(s, returnCode, linesOfOutput) == TRUE

\* The test of #frameWithoutDecoratedFrame: the exit code is not "0", or the
\* frame rule says yes for the lines of output counted.
CommandShouldBeFramed(s, returnCode, linesOfOutput) ==
    \/ returnCode # <<"0">>
    \/ CommandNeedsFrame(config, s.lastCommandLine, linesOfOutput)

\* The lines of output #frameWithoutDecoratedFrame counts for block b.
LinesOfOutput(s, b) ==
    (ScrollbackLength(s, b) - s.lastCommandTerminalRow) + CursorRow(s)

\* this.#lastCommandTerminalViewer = latestTerminalBlock
SetViewerToLast(s) ==
    [s EXCEPT !.lastCommandTerminalViewer = s.bf[Len(s.bf)]]

\* #frameWithoutDecoratedFrame with the rows copied, not taken: the active
\* block keeps the rows the new block gets.
MaterializeFrameCopying(s, activeTerminalBlock, returnCode) ==
    IF s.thrown THEN s
    ELSE [s EXCEPT
           !.frames = (s.nextId :> FrameObj("decorated", s.nextId + 1, Null)) @@ @,
           !.blocks = ((s.nextId + 1) :>
                          [TerminalBlockObj(FALSE) EXCEPT
                             !.sb = TakenScrollback(s, activeTerminalBlock,
                                                    s.lastCommandTerminalRow),
                             !.returnCode = ParseInt(returnCode),
                             !.commandLine = s.lastCommandLine]) @@ @,
           !.nextId = @ + 1 + 1,
           !.bf = Append(@, s.nextId)]

\* #frameWithoutDecoratedFrame once the last terminal frame is closed: a new
\* DecoratedFrame (id s.nextId) with a new TerminalBlock (id s.nextId + 1)
\* that takes the rows of the active block from the command's mark on.
MaterializeFrame(s, activeTerminalBlock, returnCode) ==
    IF s.thrown THEN s
    ELSE SetViewerToLast(AppendFramedTerminalBlock(
        [s EXCEPT
           !.frames = (s.nextId :> FrameObj("decorated", s.nextId + 1, Null)) @@ @,
           !.blocks = ((s.nextId + 1) :>
                          [TerminalBlockObj(FALSE) EXCEPT
                             !.sb = TakenScrollback(s, activeTerminalBlock,
                                                    s.lastCommandTerminalRow),
                             !.returnCode = ParseInt(returnCode),
                             !.commandLine = s.lastCommandLine])
                       @@ [@ EXCEPT ![activeTerminalBlock].sb =
                               LeftScrollback(s, activeTerminalBlock,
                                              s.lastCommandTerminalRow)],
           !.nextId = @ + 2,
           !.bf = Append(@, s.nextId)]))

\* #frameWithoutDecoratedFrame after #moveCursorToFreshLine
FrameWithoutOnFreshLine(s, returnCode) ==
    IF s.lastCommandTerminalViewer = NoObject THEN Throw(s)
    ELSE IF BlockOf(s, s.lastCommandTerminalViewer) = NoObject THEN Throw(s)
    ELSE IF ~CommandShouldBeFramed(
                s, returnCode,
                LinesOfOutput(s, BlockOf(s, s.lastCommandTerminalViewer)))
      THEN s
    ELSE MaterializeFrame(CloseLastTerminalFrame(s),
                          BlockOf(s, s.lastCommandTerminalViewer), returnCode)

\* #frameWithoutDecoratedFrame
FrameWithoutDecoratedFrame(s, returnCode) ==
    FrameWithoutOnFreshLine(MoveCursorToFreshLine(s), returnCode)

\* #closeLastEmbeddedViewer
CloseLastEmbeddedViewer(s, returnCode) ==
    IF FindEmptyDecoratedFrame(s) # NoObject
      THEN FrameWithExistingDecoratedFrame(s, FindEmptyDecoratedFrame(s), returnCode)
      ELSE FrameWithoutDecoratedFrame(s, returnCode)

\* #appendExtensionBlock once the last terminal frame is closed: a
\* DecoratedFrame with the extension's block, then a new terminal block.
AppendExtensionFrames(s) ==
    IF s.thrown THEN s
    ELSE SetViewerToLast(AppendFramedTerminalBlock(
        [s EXCEPT
           !.frames = (s.nextId :> FrameObj("decorated", s.nextId + 1, Null)) @@ @,
           !.blocks = ((s.nextId + 1) :> ExtensionBlockObj) @@ @,
           !.nextId = @ + 2,
           !.bf = Append(@, s.nextId)]))

\* #appendExtensionBlock
AppendExtensionBlock(s) == AppendExtensionFrames(CloseLastTerminalFrame(s))

\* --------------------------------------------------------- application mode

\* #handleApplicationModeBracketStart: the command line recorded
CleanCommandLine(data, style) ==
    IF style = <<"b", "a", "s", "h">>
      THEN Trim(Slice(Trim(data), IndexOfSpace(Trim(data))))
      ELSE data

\* environment.setList of the three current-command variables
SetCurrentCommand(env, commandLine, command) ==
    [env EXCEPT !.currentCommandLine = commandLine,
                !.currentCommand = command,
                !.exitCode = <<>>]

\* The branch of #handleApplicationModeBracketStart that opens a frame, once
\* the last terminal frame is closed: a DecoratedFrame without a block, then
\* a new terminal block.
OpenFrame(s, cleanCommandLine) ==
    IF s.thrown THEN s
    ELSE AppendFramedTerminalBlock(
        [s EXCEPT
           !.frames = (s.nextId :> FrameObj("decorated", NoObject,
                                            cleanCommandLine)) @@ @,
           !.nextId = @ + 1,
           !.bf = Append(@, s.nextId)])

\* The branch that leaves the output inline, once the rows above the cursor
\* are in the scrollback: the mark of the command's first row.
MarkCommandStart(s) ==
    IF s.thrown THEN s
    ELSE IF FindLastBareTerminalBlockFrame(s) = NoObject
      THEN Throw([s EXCEPT !.lastCommandTerminalViewer = NoObject])
    ELSE [s EXCEPT
            !.lastCommandTerminalViewer = FindLastBareTerminalBlockFrame(s),
            !.lastCommandTerminalRow =
                ScrollbackLength(s, BlockOf(s, FindLastBareTerminalBlockFrame(s)))]

\* The end of #handleApplicationModeBracketStart
RecordCommand(s, cleanCommandLine) ==
    IF s.thrown THEN s
    ELSE [s EXCEPT
            !.lastCommandLine = cleanCommandLine,
            !.env = SetCurrentCommand(@, cleanCommandLine,
                                      FirstWord(cleanCommandLine))]

\* #handleApplicationModeBracketStart for the command line cleanCommandLine
BracketStartOf(s, cleanCommandLine) ==
    IF CommandNeedsFrame(config, cleanCommandLine, -1)
      THEN OpenFrame(CloseLastTerminalFrame(s), cleanCommandLine)
      ELSE MarkCommandStart(
               MoveRowsAboveCursorToScrollback(MoveCursorToFreshLine(s)))

\* #handleApplicationModeBracketStart
HandleApplicationModeBracketStart(s) ==
    RecordCommand(
        BracketStartOf(s, CleanCommandLine(s.appData, s.bracketStyle)),
        CleanCommandLine(s.appData, s.bracketStyle))

\* The end of #handleApplicationModeBracketEnd: the current command becomes
\* the last command.
SetLastCommand(s) ==
    IF s.thrown THEN s
    ELSE [s EXCEPT !.env =
             [@ EXCEPT !.exitCode = <<>>,
                       !.currentCommandLine = <<>>,
                       !.currentCommand = <<>>,
                       !.lastCommandLine = s.env.currentCommandLine,
                       !.lastCommand = s.env.currentCommand]]

\* #handleApplicationModeBracketEnd
HandleApplicationModeBracketEnd(s) ==
    SetLastCommand(IF s.bf = <<>> THEN Throw(s)
                   ELSE CloseLastEmbeddedViewer(s, s.appData))

\* sendToPty(text)
SendToPty(s, text) ==
    IF pty THEN [s EXCEPT !.ptyOut = Append(@, text)] ELSE s

\* The error marker of #handleRequestFrame
ErrorMarker == <<"#", "e", "r", "r", "o", "r", "\n">>

\* #handleRequestFrame once the bulk file is found: a BulkFileUploader, its
\* input filter registered, the upload started.
StartUpload(s) ==
    [s EXCEPT !.uploads = (s.nextId :> "uploading") @@ @,
              !.filters = Append(@, s.nextId),
              !.nextId = @ + 1]

\* #handleRequestFrame that says nothing when the frame is not found
HandleRequestFrameSilent(s) ==
    IF ~frameFinder.present THEN s
    ELSE IF s.appData \notin frameFinder.known THEN s
    ELSE StartUpload(s)

\* #handleRequestFrame(frameId) with the accumulated data for frameId
HandleRequestFrame(s) ==
    IF ~frameFinder.present THEN s
    ELSE IF s.appData \notin frameFinder.known THEN SendToPty(s, ErrorMarker)
    ELSE StartUpload(s)

\* inputFilterRegistration.dispose() of the filter of uploader u
DisposeFilter(s, u) ==
    [s EXCEPT !.filters = SelectSeq(@, LAMBDA f : f # u)]

\* uploader.abort()
AbortUpload(s, u) == [s EXCEPT !.uploads[u] = "aborted"]

\* An input filter that lets the interrupt byte through with what follows it
InputFilterKeepsInterrupt(r, u) ==
    IF IndexOfETX(r.data, 1) # 0
      THEN [st |-> DisposeFilter(AbortUpload(r.st, u), u),
            data |-> Substring(r.data, IndexOfETX(r.data, 1) - 1)]
      ELSE [st |-> r.st, data |-> <<>>]

\* The input filter of uploader u, applied to r.data in state r.st
InputFilter(r, u) ==
    IF IndexOfETX(r.data, 1) # 0
      THEN [st |-> DisposeFilter(AbortUpload(r.st, u), u),
            data |-> Substring(r.data, IndexOfETX(r.data, 1))]
      ELSE [st |-> r.st, data |-> <<>>]

\* The loop of #handleTermData over the filters registered when it started
RECURSIVE ApplyFilters(_, _, _)
ApplyFilters(fs, i, r) ==
    IF i > Len(fs) THEN r
    ELSE ApplyFilters(fs, i + 1, InputFilter(r, fs[i]))

\* The end of #handleTermData: what is left of the data goes to the pty.
SendFiltered(r) ==
    IF r.data # <<>> THEN SendToPty(r.st, r.data) ELSE r.st

\* #handleTermData(event)
HandleTermData(s, data) ==
    SendFiltered(ApplyFilters(s.filters, 1, [st |-> s, data |-> data]))

\* The mode the second parameter selects, 0 - 1 for none of them.
ModeOfCode(code) ==
    CASE code = <<"2">> -> APPLICATION_MODE_OUTPUT_BRACKET_START
      [] code = <<"3">> -> APPLICATION_MODE_OUTPUT_BRACKET_END
      [] code = <<"4">> -> APPLICATION_MODE_REQUEST_FRAME
      [] code = <<"5">> -> APPLICATION_MODE_SHOW_FILE
      [] OTHER -> -1

\* A session cookie, crypto.randomBytes(10).toString("hex") at construction.
Cookie == <<"a", "b", "c", "1", "2", "3">>

\* The security check without the comparison: any first parameter is let in.
CookieAcceptedAnyCookie(params) == Len(params) # 0

\* The security check of #handleApplicationModeStart: the sequence is let in.
CookieAccepted(params) == Len(params) # 0 /\ params[1] = cookie

\* A call on #downloadHandler
DownloadCall(call, arg) == [call |-> call, arg |-> arg]

\* The switch of #handleApplicationModeStart on params[1]
SelectMode(s, params, download) ==
    IF ModeOfCode(params[2]) = APPLICATION_MODE_OUTPUT_BRACKET_START
      THEN [st |-> [s EXCEPT !.appMode = ModeOfCode(params[2]),
                             !.bracketStyle = IF Len(params) >= 3
                                                THEN params[3] ELSE Null],
            action |-> "CONTINUE"]
    ELSE IF ModeOfCode(params[2]) = APPLICATION_MODE_SHOW_FILE
      THEN [st |-> [s EXCEPT !.appMode = ModeOfCode(params[2]),
                             !.dl = Append(@, DownloadCall("handleStart",
                                               SubSeq(params, 3, Len(params))))],
            action |-> download]
    ELSE IF ModeOfCode(params[2]) = -1 THEN [st |-> s, action |-> "CONTINUE"]
    ELSE [st |-> [s EXCEPT !.appMode = ModeOfCode(params[2])],
          action |-> "CONTINUE"]

\* #handleApplicationModeStart that leaves the buffer as the last sequence
\* left it
HandleApplicationModeStartNoReset(s, params, download) ==
    IF ~CookieAccepted(params)
      THEN [st |-> s, action |-> "ABORT"]
    ELSE IF Len(params) = 1
      THEN [st |-> s, action |-> "ABORT"]
    ELSE SelectMode(s, params, download)

\* #handleApplicationModeStart that takes the cookie of a sequence it turns
\* away as the session's cookie from then on
HandleApplicationModeStartAdopting(s, params, download) ==
    IF Len(params) = 0
      THEN [st |-> [s EXCEPT !.appData = <<>>], action |-> "ABORT"]
    ELSE IF ~CookieAccepted(params)
      THEN [st |-> [s EXCEPT !.appData = <<>>, !.cookie = params[1]],
            action |-> "ABORT"]
    ELSE IF Len(params) = 1
      THEN [st |-> [s EXCEPT !.appData = <<>>], action |-> "ABORT"]
    ELSE SelectMode([s EXCEPT !.appData = <<>>], params, download)

\* #handleApplicationModeStart(params); download is what
\* #downloadHandler.handleStart answers.  The result: the state and the
\* response's action.
HandleApplicationModeStart(s, params, download) ==
    IF ~CookieAccepted(params)
      THEN [st |-> [s EXCEPT !.appData = <<>>], action |-> "ABORT"]
    ELSE IF Len(params) = 1
      THEN [st |-> [s EXCEPT !.appData = <<>>], action |-> "ABORT"]
    ELSE SelectMode([s EXCEPT !.appData = <<>>], params, download)

\* #handleApplicationModeData that keeps a chunk of a file and forwards nothing
ForwardDataBuffered(s, data) ==
    [s EXCEPT !.appData = @ \o data]

\* this.#downloadHandler.handleData(data)
ForwardData(s, data) ==
    [s EXCEPT !.dl = Append(@, DownloadCall("handleData", data))]

\* #handleApplicationModeData(data); download is what
\* #downloadHandler.handleData answers, created whether the download handler
\* fires onCreatedBulkFile during the call (#handleShowFile).
HandleApplicationModeData(s, data, download, created) ==
    IF s.appMode \in {APPLICATION_MODE_OUTPUT_BRACKET_START,
                      APPLICATION_MODE_OUTPUT_BRACKET_END,
                      APPLICATION_MODE_REQUEST_FRAME}
      THEN [st |-> [s EXCEPT !.appData = @ \o data], action |-> "CONTINUE"]
    ELSE IF s.appMode = APPLICATION_MODE_SHOW_FILE
      THEN [st |-> IF created THEN AppendExtensionBlock(ForwardData(s, data))
                   ELSE ForwardData(s, data),
            action |-> download]
    ELSE [st |-> s, action |-> "CONTINUE"]

\* The end of #handleApplicationModeEnd
ResetApplicationMode(s) ==
    IF s.thrown THEN s
    ELSE [s EXCEPT !.appMode = APPLICATION_MODE_NONE, !.appData = Null]

\* #handleApplicationModeEnd
HandleApplicationModeEnd(s) ==
    IF s.appMode = APPLICATION_MODE_SHOW_FILE
      THEN [s EXCEPT !.dl = Append(@, DownloadCall("handleStop", <<>>))]
    ELSE ResetApplicationMode(
        CASE s.appMode = APPLICATION_MODE_OUTPUT_BRACKET_START ->
                 HandleApplicationModeBracketStart(s)
          [] s.appMode = APPLICATION_MODE_OUTPUT_BRACKET_END ->
                 HandleApplicationModeBracketEnd(s)
          [] s.appMode = APPLICATION_MODE_REQUEST_FRAME ->
                 HandleRequestFrame(s)
          [] OTHER -> s)

\* ------------------------------------------------------------------- inputs

Str_ls_la == <<"l", "s", " ", "-", "l", "a">>
Str_cd == <<"c", "d">>
Str_bash == <<"b", "a", "s", "h">>
BadCookie == <<"x">>

\* The configurations: the ordered command-line actions, the global frame
\* rule, the two caps.
Config(actions, frameRule, frameRuleLines, maxLines, maxFrames) ==
    [commandLineActions |-> actions, frameRule |-> frameRule,
     frameRuleLines |-> frameRuleLines, scrollbackMaxLines |-> maxLines,
     scrollbackMaxFrames |-> maxFrames]

ActionsLs ==
    <<Cla(<<"l", "s">>, "name", "always_frame", 0),
      Cla(<<"^", "l">>, "regex", "never_frame", 0)>>

ActionsCd ==
    <<Cla(Str_cd, "name", "never_frame", 0),
      Cla(<<"l">>, "regex", "frame_if_lines", 1)>>

Configs ==
    {Config(ActionsLs, "never_frame", 0, 1, 0),
     Config(ActionsCd, "always_frame", 0, 2, 1),
     Config(<<>>, "frame_if_lines", 1, 1, 1)}

RowChoices == {1, 2}

\* The parameter lists of an application-mode introducer with the cookie.
ValidParams ==
    {<<Cookie, <<"2">>>>, <<Cookie, <<"3">>>>, <<Cookie, <<"5">>>>}

\* The parameter lists of any application-mode introducer.
ParamChoices ==
    ValidParams \cup
    {<<>>, <<BadCookie, <<"2">>>>, <<Cookie>>, <<Cookie, <<"2">>, Str_bash>>,
     <<Cookie, <<"4">>>>, <<Cookie, <<"7">>>>}

\* The data chunks a shell sends in each mode: a command line, an exit code,
\* a piece of a file.
ChunksOfMode(mode) ==
    CASE mode = APPLICATION_MODE_OUTPUT_BRACKET_START -> {Str_ls_la, Str_cd}
      [] mode = APPLICATION_MODE_OUTPUT_BRACKET_END -> {<<"0">>, <<"1">>}
      [] OTHER -> {<<"x">>}

\* The data chunks of any application-mode sequence.
AnyChunks == {Str_cd, <<"0">>}

Responses == {"CONTINUE", "ABORT"}

\* -------------------------------------------------------------- observation

\* The DecoratedFrame objects.
DecoratedFrames(fr) == {f \in DOMAIN fr : fr[f].kind = "decorated"}

\* The bracketed command under observation: "running" from the end of its
\* BRACKET_START sequence, "done" in the state its BRACKET_END sequence ends
\* in.  opened: BRACKET_START opened a frame; line: the command line it
\* recorded; rowsOut: the rows written since; before: the DecoratedFrames
\* there were before it; atLineStart, complete: the cursor was at the start
\* of a row at BRACKET_START, at BRACKET_END; code: the exit-code string;
\* listBefore: #blockFrames before BRACKET_END; waiting: an earlier frame
\* without a block was found at BRACKET_END; undisturbed: since
\* BRACKET_START neither cap has been reached and no other sequence has
\* changed the list; block, rowsBefore: the last terminal block after
\* BRACKET_START and the rows its scrollback held then.
NoCmd ==
    [phase |-> "none", opened |-> FALSE, line |-> Null, rowsOut |-> <<>>,
     before |-> {}, atLineStart |-> FALSE, complete |-> FALSE, code |-> Null,
     listBefore |-> <<>>, waiting |-> FALSE, undisturbed |-> FALSE,
     block |-> NoObject, rowsBefore |-> {}]

\* The last step: the handler, its input, the response it gave (download:
\* what #downloadHandler answered, when the step asked it), whether it threw,
\* the calls it made on #downloadHandler and the texts it wrote to the pty.
Event(op, arg, action, threw) ==
    [op |-> op, arg |-> arg, action |-> action, threw |-> threw,
     download |-> "-", dl |-> <<>>, pty |-> <<>>]

\* The same with what the handler that ended in state t forwarded.
EventOf(op, arg, action, download, t) ==
    [op |-> op, arg |-> arg, action |-> action, threw |-> t.thrown,
     download |-> IF t.dl = <<>> THEN "-" ELSE download,
     dl |-> t.dl, pty |-> t.ptyOut]

\* The cell of the font, metrics.heightPx and metrics.widthPx
CellHeightPx == 2
CellWidthPx == 1

\* environment.setList of #internalResizeTerminalArea
SetTerminalSize(env, r, c) ==
    [env EXCEPT !.termRows = NumberToString(r),
                !.termColumns = NumberToString(c),
                !.heightPx = NumberToString(r * CellHeightPx),
                !.widthPx = NumberToString(c * CellWidthPx)]

\* --------------------------------------------------------------------- init

\* The frame finders: none known to it, one frame known to it, no finder.
Str_1 == <<"1">>
EmptyFrameFinder == [present |-> TRUE, known |-> {}]
FrameFinders ==
    {[present |-> TRUE, known |-> {Str_1}], [present |-> FALSE, known |-> {}]}

EmptyEnvironment ==
    [currentCommandLine |-> <<>>, currentCommand |-> <<>>, exitCode |-> <<>>,
     lastCommandLine |-> <<>>, lastCommand |-> <<>>,
     termRows |-> <<>>, termColumns |-> <<>>,
     heightPx |-> <<>>, widthPx |-> <<>>]

\* pty.permittedDataSize(1024) of setPty
InitialPermittedDataSize == 1024

\* Flow control before the emulator has reported a buffer size and before a
\* pty was permitted one; a size is <<n>>, none is <<>>.
NoFlow == [reported |-> <<>>, permitted |-> <<>>]

\* The emulator with no batch in flight: "stage" is how far the batch in
\* flight has got, "cur" its chunk, "queue" the chunks waiting, "next" the
\* next chunk to be submitted, "deferred" the chunks that had to wait, "log"
\* the batches begun and ended and the notifications emitted, in order.
NoFeed ==
    [stage |-> "idle", cur |-> 0, queue |-> <<>>, next |-> 1, deferred |-> {},
     log |-> <<>>]

\* A terminal in use: constructed, its visual configuration set, laid out at
\* initRows x InitColumns and resized to it, its pty attached and sized.
InitColumns == 2

InitSized(rowChoices) ==
    /\ rows \in rowChoices
    /\ visualConfig = TRUE
    /\ columns = InitColumns
    /\ termRows = rows
    /\ termColumns = columns
    /\ emuSize = <<columns, rows>>
    /\ pty = TRUE
    /\ ptySize = <<columns, rows>>
    /\ ptyLater = FALSE
    /\ resizeGuard = FALSE
    /\ resizing = <<>>
    /\ disposal = NoDisposal
    /\ flow = [NoFlow EXCEPT !.permitted = <<InitialPermittedDataSize>>]
    /\ environment = SetTerminalSize(EmptyEnvironment, rows, columns)

\* The constructor, #initEmulator and #createUi: what the handlers own
InitTerminal(cfgs, finders, cookies) ==
    /\ config \in cfgs
    /\ cookie \in cookies
    /\ received = <<>>
    /\ frameFinder \in finders
    /\ inputStreamFilters = <<>>
    /\ uploads = <<>>
    /\ feed = NoFeed
    /\ blockFrames = <<1>>
    /\ frames = (1 :> FrameObj("spacer", 2, Null))
    /\ blocks = (2 :> TerminalBlockObj(TRUE))
    /\ nextId = 3
    /\ screen = <<>>
    /\ cursorLine = 0
    /\ pendingSb = <<>>
    /\ nextRow = 1
    /\ emuAppMode = FALSE
    /\ applicationMode = APPLICATION_MODE_NONE
    /\ applicationModeData = Null
    /\ bracketStyle = Null
    /\ lastCommandLine = Null
    /\ lastCommandTerminalRow = -1
    /\ lastCommandTerminalViewer = 1
    /\ timerPending = FALSE
    /\ event = Event("init", <<>>, "-", FALSE)
    /\ sequences = 0
    /\ chunks = 0
    /\ cmd = NoCmd

InitWith(cfgs, rowChoices, finders, cookies) ==
    InitSized(rowChoices) /\ InitTerminal(cfgs, finders, cookies)

Init == InitWith(Configs, RowChoices, {EmptyFrameFinder}, {Cookie})

\* ------------------------------------------------------------------ actions

\* What a write does to the emulator before the batch's render.
WriteText(s, nl) ==
    IF s.cursorLine = 0
      THEN (IF nl
              THEN EmuNewLine([s EXCEPT !.cursorLine = s.nextRow, !.nextRow = @ + 1])
              ELSE [s EXCEPT !.cursorLine = s.nextRow, !.nextRow = @ + 1])
      ELSE (IF nl THEN EmuNewLine(s) ELSE s)

\* The rows the scrollback of block b holds.
RowsHeld(s, b) == {s.blocks[b].sb[i] : i \in 1..Len(s.blocks[b].sb)}

\* The command under observation after an output or a timer step from s to t.
CmdAfterStep(s, t) ==
    IF cmd.phase # "running" THEN NoCmd
    ELSE [cmd EXCEPT
            !.rowsOut = IF t.nextRow > s.nextRow THEN Append(@, s.nextRow) ELSE @,
            !.undisturbed = @ /\ ~t.capReached]

Written(s, t) ==
    /\ Store(t)
    /\ event' = Event("write", <<>>, "-", t.thrown)
    /\ cmd' = CmdAfterStep(s, t)

\* pty.onData -> emulator.write(text): one batch that writes text on the row
\* under the cursor, ends the row with a line feed when nl, and renders.
Write(nl, maxRows) ==
    /\ ~emuAppMode
    /\ IF cursorLine = 0 THEN nextRow <= maxRows ELSE nl
    /\ Written(Cur, Render(WriteText(Cur, nl)))
    /\ UNCHANGED <<config, rows, emuAppMode, sequences, chunks, received>>

Started(r, params, download) ==
    /\ Store(r.st)
    /\ emuAppMode' = (r.action = "CONTINUE")
    /\ event' = EventOf("start", params, r.action, download, r.st)

\* The emulator meets an application-mode introducer with parameters params.
AmStart(params, download, maxSequences) ==
    /\ ~emuAppMode
    /\ sequences < maxSequences
    /\ Started(HandleApplicationModeStart(Cur, params, download), params,
               download)
    /\ sequences' = sequences + 1
    /\ chunks' = 0
    /\ received' = <<>>
    /\ cmd' = IF cmd.phase = "running" THEN cmd ELSE NoCmd
    /\ UNCHANGED <<config, rows>>

Delivered(r, data, download) ==
    /\ Store(r.st)
    /\ emuAppMode' = (r.action = "CONTINUE" /\ ~r.st.thrown)
    /\ event' = EventOf("data", data, r.action, download, r.st)
    /\ cmd' = IF cmd.phase # "running" THEN NoCmd
              ELSE [cmd EXCEPT !.undisturbed = @ /\ r.st.bf = blockFrames]

\* The emulator passes a chunk of the sequence's payload on.
AmData(data, download, created, maxChunks) ==
    /\ emuAppMode
    /\ chunks < maxChunks
    /\ Delivered(HandleApplicationModeData(Cur, data, download, created), data,
                 download)
    /\ chunks' = chunks + 1
    /\ received' = received \o data
    /\ UNCHANGED <<config, rows, sequences>>

\* The command under observation after the end handler took s to t.
CmdAfterEnd(s, t) ==
    IF s.appMode = APPLICATION_MODE_OUTPUT_BRACKET_START
      THEN (IF t.thrown THEN NoCmd
            ELSE [NoCmd EXCEPT
                    !.phase = "running",
                    !.opened = DecoratedFrames(t.frames) # DecoratedFrames(s.frames),
                    !.line = t.lastCommandLine,
                    !.before = DecoratedFrames(s.frames),
                    !.atLineStart = (s.cursorLine = 0),
                    !.undisturbed = ~t.capReached,
                    !.block = BlockOf(t, t.bf[Len(t.bf)]),
                    !.rowsBefore = RowsHeld(t, BlockOf(t, t.bf[Len(t.bf)]))])
    ELSE IF s.appMode = APPLICATION_MODE_OUTPUT_BRACKET_END
      THEN (IF cmd.phase # "running" THEN NoCmd
            ELSE [cmd EXCEPT
                    !.phase = "done",
                    !.complete = (s.cursorLine = 0),
                    !.code = s.appData,
                    !.listBefore = s.bf,
                    !.waiting = (FindEmptyDecoratedFrame(s) # NoObject),
                    !.undisturbed = @ /\ ~t.capReached])
    ELSE IF cmd.phase = "running" THEN cmd
    ELSE NoCmd

\* The batch ends with a render unless the handler threw.
EndBatch(s) == IF s.thrown THEN s ELSE Render(s)

\* What #handleApplicationModeEnd returns: in SHOW_FILE mode what
\* #downloadHandler.handleStop answers.
EndResponse(s, download) ==
    IF s.appMode = APPLICATION_MODE_SHOW_FILE THEN download ELSE "CONTINUE"

Ended(s, t, download) ==
    /\ Store(t)
    /\ event' = EventOf("end", s.appData, EndResponse(s, download), download, t)
    /\ cmd' = CmdAfterEnd(s, t)

\* The emulator meets the terminator of the sequence; download is what
\* #downloadHandler.handleStop answers.
AmEnd(download) ==
    /\ emuAppMode
    /\ Ended(Cur, EndBatch(HandleApplicationModeEnd(Cur)), download)
    /\ emuAppMode' = FALSE
    /\ UNCHANGED <<config, rows, sequences, chunks, received>>

TimerFired(s, t) ==
    /\ Store(t)
    /\ event' = Event("timer", <<>>, "-", t.thrown)
    /\ cmd' = CmdAfterStep(s, t)

\* The debounced timer fires: #laterEnforceScrollbackSize
LaterEnforceScrollbackSize ==
    /\ timerPending
    /\ TimerFired(Cur,
                  EnforceScrollbackFrameSize([Cur EXCEPT !.timerPending = FALSE],
                                             config.scrollbackMaxFrames))
    /\ UNCHANGED <<config, rows, emuAppMode, sequences, chunks, received>>

\* destroyFrame(frame)
DestroyFrame(s, frame) == DisposeBlockOf(RemoveFrameFromScrollArea(s, frame), frame)

\* commandDeleteLastFrame on s: the newest DecoratedFrame of the list is
\* destroyed, nothing when the list has none.
DeleteLastFrame(s) ==
    LET hits == {i \in 1..Len(s.bf) : s.frames[s.bf[i]].kind = "decorated"}
    IN IF hits = {} THEN s
       ELSE DestroyFrame(s, s.bf[CHOOSE i \in hits : \A j \in hits : j <= i])

FrameDeleted(s, t) ==
    /\ Store(t)
    /\ event' = Event("deleteLastFrame", <<>>, "-", t.thrown)
    /\ cmd' = CmdAfterStep(s, t)

\* The command extraterm:terminal.deleteLastFrame runs.
CommandDeleteLastFrame ==
    /\ FrameDeleted(Cur, DeleteLastFrame(Cur))
    /\ UNCHANGED <<config, rows, emuAppMode, sequences, chunks, received>>

\* #commandNeedsFrame is asked about commandLine with linesOfOutput lines.
Decide(commandLine, linesOfOutput) ==
    /\ event' = Event("decide",
                       [commandLine |-> commandLine,
                        linesOfOutput |-> linesOfOutput],
                       IF CommandNeedsFrame(config, commandLine, linesOfOutput)
                         THEN "frame" ELSE "inline",
                       FALSE)
    /\ UNCHANGED <<config, rows, blockFrames, frames, blocks, nextId, screen,
                   cursorLine, pendingSb, nextRow, emuAppMode, applicationMode,
                   applicationModeData, bracketStyle, lastCommandLine,
                   lastCommandTerminalRow, lastCommandTerminalViewer,
                   environment, timerPending, sequences, chunks, cmd, cookie,
                   received, inputStreamFilters, uploads>>
    /\ UNCHANGED sizeVars

\* What the handlers of the emulator and the timer own, which the size
\* handlers leave alone.
terminalVars ==
    <<config, blockFrames, frames, blocks, nextId, screen, cursorLine,
      pendingSb, nextRow, emuAppMode, applicationMode, applicationModeData,
      bracketStyle, lastCommandLine, lastCommandTerminalRow,
      lastCommandTerminalViewer, timerPending, sequences, chunks, cmd, cookie,
      received, inputStreamFilters, uploads, frameFinder, feed>>

TermDataHandled(t, data) ==
    /\ Store(t)
    /\ event' = EventOf("termdata", data, "-", "-", t)

\* emulator.onData: the emulator has data for the pty (key presses, answers)
\* and #handleTermData runs.
TermData(data) ==
    /\ ~emuAppMode
    /\ TermDataHandled(HandleTermData(Cur, data), data)
    /\ UNCHANGED <<config, rows, emuAppMode, sequences, chunks, received, cmd>>

UploadEnded(t, u) ==
    /\ Store(t)
    /\ event' = EventOf("finished", <<u>>, "-", "-", t)

\* uploader.onFinished: the upload of u is through and its callback runs.
UploadFinished(u) ==
    /\ ~emuAppMode
    /\ uploads[u] = "uploading"
    /\ UploadEnded(DisposeFilter([Cur EXCEPT !.uploads[u] = "finished"], u), u)
    /\ UNCHANGED <<config, rows, emuAppMode, sequences, chunks, received, cmd>>

\* emulator.resize({rows, columns}): a size that is not positive is
\* rejected and the emulator keeps the size it has.
EmulatorResize(size, c, r) == IF c > 0 /\ r > 0 THEN <<c, r>> ELSE size

\* #internalResizeTerminalArea that leaves the pty out
ApplySizePtyForgotten(r, c) ==
    /\ termColumns' = c
    /\ termRows' = r
    /\ ptySize' = ptySize
    /\ emuSize' = EmulatorResize(emuSize, c, r)
    /\ environment' = SetTerminalSize(environment, r, c)

\* resizeTerminalArea with #computeTerminalSize giving r rows and c columns:
\* #internalResizeTerminalArea once the size is known and differs.
ApplySize(r, c) ==
    /\ termColumns' = c
    /\ termRows' = r
    /\ ptySize' = IF pty THEN <<c, r>> ELSE ptySize
    /\ emuSize' = EmulatorResize(emuSize, c, r)
    /\ environment' = SetTerminalSize(environment, r, c)

\* #internalResizeTerminalArea where r rows and c columns of cells fit;
\* #computeTerminalSize gives null when there is no visual configuration.
InternalResizeTerminalArea(hasVisualConfig, r, c) ==
    IF ~hasVisualConfig \/ (c = termColumns /\ r = termRows)
      THEN UNCHANGED <<termColumns, termRows, ptySize, emuSize, environment>>
      ELSE ApplySize(r, c)

\* #handleResize: the widget has a new geometry, r rows and c columns of
\* cells fit, and resizeTerminalArea runs.
HandleResize(r, c) ==
    /\ rows' = r
    /\ columns' = c
    /\ InternalResizeTerminalArea(visualConfig, r, c)
    /\ event' = Event("resize", <<c, r>>, "-", FALSE)
    /\ UNCHANGED <<visualConfig, pty, ptyLater, flow,
                   resizeGuard, resizing,
                   disposal>>
    /\ UNCHANGED terminalVars

\* setTerminalVisualConfig with a font of which r rows and c columns fit:
\* #applyTerminalVisualConfig ends with resizeTerminalArea.
SetTerminalVisualConfig(r, c) ==
    /\ visualConfig' = TRUE
    /\ rows' = r
    /\ columns' = c
    /\ InternalResizeTerminalArea(TRUE, r, c)
    /\ event' = Event("visualconfig", <<c, r>>, "-", FALSE)
    /\ UNCHANGED <<pty, ptyLater, flow,
                   resizeGuard, resizing,
                   disposal>>
    /\ UNCHANGED terminalVars

\* resizeTerminalArea up to the scrollArea.setViewportMargins of
\* #internalResizeTerminalArea, when r rows and c columns of cells fit: the
\* guard is taken and the size computed. Under the guard, and without a
\* visual configuration, the call returns at once.
ResizeTerminalAreaEnterUnguarded(r, c) ==
    IF resizeGuard \/ ~visualConfig
      THEN UNCHANGED <<resizeGuard, resizing, rows, columns>>
      ELSE /\ resizeGuard' = FALSE
           /\ resizing' = <<c, r>>
           /\ rows' = r
           /\ columns' = c

ResizeTerminalAreaEnter(r, c) ==
    IF resizeGuard \/ ~visualConfig
      THEN UNCHANGED <<resizeGuard, resizing, rows, columns>>
      ELSE /\ resizeGuard' = TRUE
           /\ resizing' = <<c, r>>
           /\ rows' = r
           /\ columns' = c

\* #handleResize when no resizeTerminalArea is in progress: the call goes as
\* far as setViewportMargins, which lays the widget out again.
ResizeBegin(r, c) ==
    /\ resizing = <<>>
    /\ ResizeTerminalAreaEnter(r, c)
    /\ event' = Event("resizeBegin", <<c, r>>, "-", FALSE)
    /\ UNCHANGED <<visualConfig, pty, ptyLater, flow, termColumns, termRows,
                   ptySize, emuSize, environment,
                   disposal>>
    /\ UNCHANGED terminalVars

\* resizeTerminalArea called from within the one in progress, by the resize
\* event of the new layout: it returns at once under the guard and runs
\* whole without it.
ResizeNested(r, c) ==
    /\ resizing # <<>>
    /\ IF resizeGuard
         THEN UNCHANGED <<rows, columns, termColumns, termRows, ptySize,
                          emuSize, environment>>
         ELSE /\ rows' = r
              /\ columns' = c
              /\ InternalResizeTerminalArea(visualConfig, r, c)
    /\ event' = Event("resizeNested", <<c, r>>, "-", FALSE)
    /\ UNCHANGED <<visualConfig, pty, ptyLater, flow, resizeGuard, resizing,
                   disposal>>
    /\ UNCHANGED terminalVars

\* A resizeTerminalArea that leaves the guard set when it ends
ResizeTerminalAreaLeaveGuarded ==
    /\ resizing # <<>>
    /\ InternalResizeTerminalArea(TRUE, resizing[2], resizing[1])
    /\ resizeGuard' = resizeGuard
    /\ resizing' = <<>>
    /\ event' = Event("resizeEnd", resizing, "-", FALSE)
    /\ UNCHANGED <<rows, columns, visualConfig, pty, ptyLater, flow,
                   disposal>>
    /\ UNCHANGED terminalVars

\* The rest of the resizeTerminalArea in progress: #internalResizeTerminalArea
\* after setViewportMargins, with the size it computed, and the guard cleared.
ResizeTerminalAreaLeave ==
    /\ resizing # <<>>
    /\ InternalResizeTerminalArea(TRUE, resizing[2], resizing[1])
    /\ resizeGuard' = FALSE
    /\ resizing' = <<>>
    /\ event' = Event("resizeEnd", resizing, "-", FALSE)
    /\ UNCHANGED <<rows, columns, visualConfig, pty, ptyLater, flow,
                   disposal>>
    /\ UNCHANGED terminalVars

\* The loop of dispose over #blockFrames from the i-th on:
\* blockPlumbing.frame.getBlock().dispose()
RECURSIVE DisposeBlocks(_, _)
DisposeBlocks(s, i) ==
    IF i > Len(s.bf) \/ s.thrown THEN s
    ELSE IF BlockOf(s, s.bf[i]) = NoObject THEN Throw(s)
    ELSE DisposeBlocks([s EXCEPT !.blocks[BlockOf(s, s.bf[i])].disposed = TRUE],
                       i + 1)

\* What is left of dispose once the blocks are disposed, in t: onDispose
\* fires, the pty is destroyed and forgotten.
Disposed(t) ==
    /\ blocks' = t.blocks
    /\ pty' = (pty /\ t.thrown)
    /\ disposal' = [called |-> TRUE,
                    fired |-> IF t.thrown THEN 0 ELSE 1,
                    destroyed |-> IF pty /\ ~t.thrown THEN 1 ELSE 0]
    /\ event' = EventOf("dispose", <<>>, "-", "-", t)

\* dispose()
Dispose ==
    /\ ~disposal.called
    /\ Disposed(DisposeBlocks(Cur, 1))
    /\ UNCHANGED <<config, rows, blockFrames, frames, nextId, screen,
                   cursorLine, pendingSb, nextRow, emuAppMode, applicationMode,
                   applicationModeData, bracketStyle, lastCommandLine,
                   lastCommandTerminalRow, lastCommandTerminalViewer,
                   environment, timerPending, sequences, chunks, cmd, cookie,
                   received, visualConfig, columns, termRows, termColumns,
                   emuSize, ptySize, ptyLater, frameFinder, inputStreamFilters,
                   uploads, feed, flow, resizeGuard, resizing>>

\* setPty(pty): the pty is kept and its size is given to it later.
SetPty ==
    /\ ~pty
    /\ pty' = TRUE
    /\ ptyLater' = TRUE
    /\ event' = Event("setPty", <<>>, "-", FALSE)
    /\ UNCHANGED <<rows, columns, visualConfig, termColumns, termRows, ptySize,
                   emuSize, environment, flow,
                   resizeGuard, resizing,
                   disposal>>
    /\ UNCHANGED terminalVars

\* The doLater of setPty: pty.resize(this.#columns, this.#rows) and
\* pty.permittedDataSize(1024)
SetPtyLater ==
    /\ ptyLater
    /\ ptyLater' = FALSE
    /\ ptySize' = <<termColumns, termRows>>
    /\ flow' = [flow EXCEPT !.permitted = <<InitialPermittedDataSize>>]
    /\ event' = Event("setPtyLater", <<>>, "-", FALSE)
    /\ UNCHANGED <<rows, columns, visualConfig, termColumns, termRows, pty,
                   emuSize, environment,
                   resizeGuard, resizing,
                   disposal>>
    /\ UNCHANGED terminalVars

\* #handleWriteBufferSize: the emulator reports its write buffer's size.
HandleWriteBufferSize(bufferSize) ==
    /\ flow' = [reported |-> <<bufferSize>>,
                permitted |-> IF pty THEN <<bufferSize>> ELSE flow.permitted]
    /\ event' = Event("writeBufferSize", <<bufferSize>>, "-", FALSE)
    /\ UNCHANGED <<rows, columns, visualConfig, termColumns, termRows, pty,
                   ptySize, ptyLater, emuSize, environment,
                   resizeGuard, resizing,
                   disposal>>
    /\ UNCHANGED terminalVars

\* A shell with the integration: sequences carry the cookie, each mode its
\* own kind of payload, and a shown file creates its bulk file.
Next ==
    \/ \E nl \in BOOLEAN : Write(nl, MaxRowsWritten)
    \/ \E params \in ValidParams : AmStart(params, "CONTINUE", MaxSequences)
    \/ \E data \in ChunksOfMode(applicationMode) :
           AmData(data, "CONTINUE", applicationMode = APPLICATION_MODE_SHOW_FILE,
                  MaxChunks)
    \/ AmEnd("CONTINUE")
    \/ LaterEnforceScrollbackSize

Spec == Init /\ [][Next]_vars

\* Any byte stream: introducers with and without the cookie, any mode code,
\* any payload, and a download handler that answers either way.
InitProtocol ==
    InitWith({Config(<<>>, "always_frame", 0, 1, 1)}, {1}, {EmptyFrameFinder},
             {Cookie, BadCookie})

NextProtocol ==
    \/ Write(TRUE, MaxProtocolRows)
    \/ \E params \in ParamChoices, download \in Responses :
           AmStart(params, download, MaxProtocolSequences)
    \/ \E data \in AnyChunks, download \in Responses :
           AmData(data,
                  IF applicationMode = APPLICATION_MODE_SHOW_FILE
                    THEN download ELSE "CONTINUE",
                  FALSE, MaxProtocolChunks)
    \/ \E download \in Responses :
           AmEnd(IF applicationMode = APPLICATION_MODE_SHOW_FILE
                   THEN download ELSE "CONTINUE")
    \/ LaterEnforceScrollbackSize

SpecProtocol == InitProtocol /\ [][NextProtocol]_vars

\* The frame decision alone: every list of up to two command-line actions
\* out of DecisionEntries, every global rule, every command line of
\* DecisionCommands, every line count up to MaxDecisionLines.
DecisionEntries ==
    {Cla(<<"l", "s">>, "name", "always_frame", 0),
     Cla(<<"l", "s">>, "name", "never_frame", 0),
     Cla(<<"^", "l">>, "regex", "never_frame", 0),
     Cla(<<"l", "a">>, "regex", "frame_if_lines", 1),
     Cla(Str_cd, "name", "frame_if_lines", 0)}

DecisionLists ==
    {<<>>} \cup {<<a>> : a \in DecisionEntries}
           \cup {<<a, b>> : a \in DecisionEntries, b \in DecisionEntries}

DecisionConfigs ==
    {Config(actions, rule, 1, 1, 1) :
        actions \in DecisionLists,
        rule \in {"always_frame", "never_frame", "frame_if_lines"}}

DecisionCommands == {Null, <<" ">>, Str_ls_la, <<" ", "l", "s">>, Str_cd, <<"l", "a">>}

InitDecision == InitWith(DecisionConfigs, {1}, {EmptyFrameFinder}, {Cookie})

NextDecision ==
    \E commandLine \in DecisionCommands, linesOfOutput \in -1..MaxDecisionLines :
        Decide(commandLine, linesOfOutput)

SpecDecision == InitDecision /\ [][NextDecision]_vars

\* The frame requests: introducers of REQUEST_FRAME with the cookie, frame
\* identifiers the finder knows and does not know, data from the emulator
\* for the pty with and without the interrupt, uploads that finish.
MaxTransferSequences == 2

Str_9 == <<"9">>
TermDataChoices == {<<"a">>, <<ETX>>, <<"a", ETX, "b">>}

InitTransfer ==
    InitWith({Config(<<>>, "never_frame", 0, 1, 1)}, {1}, FrameFinders, {Cookie})

NextTransfer ==
    \/ AmStart(<<Cookie, <<"4">>>>, "CONTINUE", MaxTransferSequences)
    \/ \E data \in {Str_1, Str_9} : AmData(data, "CONTINUE", FALSE, MaxChunks)
    \/ AmEnd("CONTINUE")
    \/ \E data \in TermDataChoices : TermData(data)
    \/ \E u \in DOMAIN uploads : UploadFinished(u)

SpecTransfer == InitTransfer /\ [][NextTransfer]_vars

\* The size: a terminal as constructed, without visual configuration and
\* without pty, whose widget is laid out again and again.
SizeChoices == {-1, 0, 1, 2}

\* The buffer sizes the emulator reports.
BufferSizeChoices == {512, 2048}

InitSize ==
    /\ InitTerminal({Config(<<>>, "never_frame", 0, 1, 1)}, {EmptyFrameFinder},
                    {Cookie})
    /\ rows \in SizeChoices
    /\ columns \in SizeChoices
    /\ visualConfig = FALSE
    /\ termRows = -1
    /\ termColumns = -1
    /\ emuSize = <<>>
    /\ pty = FALSE
    /\ ptySize = <<>>
    /\ ptyLater = FALSE
    /\ resizeGuard = FALSE
    /\ resizing = <<>>
    /\ disposal = NoDisposal
    /\ flow = NoFlow
    /\ environment = EmptyEnvironment

NextSize ==
    \/ \E r \in SizeChoices, c \in SizeChoices : HandleResize(r, c)
    \/ \E r \in SizeChoices, c \in SizeChoices : SetTerminalVisualConfig(r, c)
    \/ SetPty
    \/ SetPtyLater
    \/ \E bufferSize \in BufferSizeChoices : HandleWriteBufferSize(bufferSize)

SpecSize == InitSize /\ [][NextSize]_vars

\* The resize in steps: resizeTerminalArea is called again, by the resize
\* event of the layout, while a call is in progress; the visual
\* configuration and the pty are set between the calls.
NextResize ==
    \/ \E r \in SizeChoices, c \in SizeChoices : ResizeBegin(r, c)
    \/ \E r \in SizeChoices, c \in SizeChoices : ResizeNested(r, c)
    \/ ResizeTerminalAreaLeave
    \/ \E r \in SizeChoices, c \in SizeChoices :
           resizing = <<>> /\ SetTerminalVisualConfig(r, c)
    \/ resizing = <<>> /\ SetPty
    \/ resizing = <<>> /\ SetPtyLater

SpecResize == InitSize /\ [][NextResize]_vars

\* The disposal: a terminal that frames every command is disposed of before,
\* while and after a command runs, and the emulator has data for the pty
\* before and after that.
InitDispose ==
    InitWith({Config(<<>>, "always_frame", 0, 2, 1)}, {1}, {EmptyFrameFinder},
             {Cookie})

NextDispose ==
    \/ \E nl \in BOOLEAN : ~disposal.called /\ Write(nl, MaxRowsWritten)
    \/ \E params \in {<<Cookie, <<"2">>>>, <<Cookie, <<"3">>>>} :
           ~disposal.called /\ AmStart(params, "CONTINUE", MaxSequences)
    \/ \E data \in ChunksOfMode(applicationMode) :
           ~disposal.called /\ AmData(data, "CONTINUE", FALSE, MaxChunks)
    \/ ~disposal.called /\ AmEnd("CONTINUE")
    \/ Dispose
    \/ TermData(<<"a">>)

SpecDispose == InitDispose /\ [][NextDispose]_vars

\* The command line of BRACKET_START alone: every payload of up to
\* MaxCommandLineChunks pieces, with the bracket style "bash", with another
\* style and with none.
MaxCommandLineChunks == 4

Str_zsh == <<"z", "s", "h">>
CommandLinePieces == {<<" ">>, <<"7">>, <<"l", "s">>}

InitCommandLine ==
    InitWith({Config(<<>>, "never_frame", 0, 1, 1)}, {1}, {EmptyFrameFinder},
             {Cookie})

NextCommandLine ==
    \/ \E params \in {<<Cookie, <<"2">>, Str_bash>>, <<Cookie, <<"2">>, Str_zsh>>,
                       <<Cookie, <<"2">>>>} :
           AmStart(params, "CONTINUE", 1)
    \/ \E data \in CommandLinePieces :
           AmData(data, "CONTINUE", FALSE, MaxCommandLineChunks)
    \/ AmEnd("CONTINUE")

SpecCommandLine == InitCommandLine /\ [][NextCommandLine]_vars

\* A command that shows a file: up to MaxShowSequences sequences in one
\* behaviour, so that a SHOW_FILE sequence fits between the BRACKET_START and
\* the BRACKET_END of a command, under a frame-if-lines rule, global or of an
\* entry, with up to MaxShowRows rows of output, and the user's
\* delete-last-frame command at any time.
MaxShowSequences == 3
MaxShowRows == 3

ShowConfigs ==
    {Config(<<>>, "frame_if_lines", 1, 1, 2),
     Config(<<Cla(<<"c">>, "regex", "frame_if_lines", 1)>>, "never_frame", 0, 1, 2)}

InitShow == InitWith(ShowConfigs, {1}, {EmptyFrameFinder}, {Cookie})

NextShow ==
    \/ \E nl \in BOOLEAN : Write(nl, MaxShowRows)
    \/ \E params \in ValidParams : AmStart(params, "CONTINUE", MaxShowSequences)
    \/ \E data \in IF applicationMode = APPLICATION_MODE_OUTPUT_BRACKET_START
                     THEN {Str_cd}
                     ELSE IF applicationMode = APPLICATION_MODE_OUTPUT_BRACKET_END
                       THEN {<<"0">>}
                       ELSE {<<"x">>} :
           AmData(data, "CONTINUE", applicationMode = APPLICATION_MODE_SHOW_FILE,
                  MaxChunks)
    \/ AmEnd("CONTINUE")
    \/ LaterEnforceScrollbackSize
    \/ CommandDeleteLastFrame

SpecShow == InitShow /\ [][NextShow]_vars

\* ------------------------------------------------------- emulator's batches

\* A batch begins on chunk c.
BeginBatch(f, c) ==
    [f EXCEPT !.cur = c, !.stage = "processing",
              !.log = Append(@, [kind |-> "begin", chunk |-> c])]

\* write(text) that begins a batch whether or not one is in flight
FeedSubmitOverlapping(f) ==
    BeginBatch([f EXCEPT !.next = @ + 1], f.next)

\* write(text) with the next chunk: a batch begins when none is in flight,
\* the chunk is queued otherwise.
FeedSubmit(f) ==
    IF f.stage = "idle"
      THEN BeginBatch([f EXCEPT !.next = @ + 1], f.next)
      ELSE [f EXCEPT !.queue = Append(@, f.next),
                     !.deferred = @ \cup {f.next},
                     !.next = @ + 1]

\* The batch in flight emits a notification and is at stage from then on.
FeedNotify(f, kind, stage) ==
    [f EXCEPT !.stage = stage,
              !.log = Append(@, [kind |-> kind, chunk |-> f.cur])]

\* The batch in flight ends.
EndOfBatch(f) ==
    [f EXCEPT !.stage = "idle", !.cur = 0,
              !.log = Append(@, [kind |-> "end", chunk |-> f.cur])]

\* The batch in flight finishes and the queue is drained from its head.
FeedFinish(f) ==
    IF f.queue = <<>> THEN EndOfBatch(f)
    ELSE BeginBatch([EndOfBatch(f) EXCEPT !.queue = Tail(@)], Head(f.queue))

\* What the emulator's batches leave alone.
batchVars ==
    <<rows, environment, visualConfig, columns, termRows, termColumns, emuSize,
      pty, ptySize, ptyLater, flow, config, blockFrames, frames, blocks, nextId,
      screen, cursorLine, pendingSb, nextRow, emuAppMode, applicationMode,
      applicationModeData, bracketStyle, lastCommandLine,
      lastCommandTerminalRow, lastCommandTerminalViewer, timerPending,
      sequences, chunks, cmd, cookie, received, inputStreamFilters, uploads,
      frameFinder, resizeGuard, resizing, disposal>>

FeedStep(f, op) ==
    /\ feed' = f
    /\ event' = Event(op, <<f.cur>>, "-", FALSE)
    /\ UNCHANGED batchVars

\* pty.onData -> emulator.write(text), also from within a handler of the
\* batch in flight.
EmulatorWrite(maxChunks) ==
    /\ feed.next <= maxChunks
    /\ FeedStep(FeedSubmit(feed), "feed")

\* The batch's one screen-change notification: #handleScreenChange runs.
ScreenChangeNotified ==
    /\ feed.stage = "processing"
    /\ FeedStep(FeedNotify(feed, "change", "changed"), "screenChange")

\* The batch's one render notification.
RenderNotified ==
    /\ feed.stage \in {"processing", "changed"}
    /\ FeedStep(FeedNotify(feed, "render", "rendered"), "render")

\* The batch in flight finishes and the next chunk queued, if any, is taken.
BatchFinished ==
    /\ feed.stage # "idle"
    /\ FeedStep(FeedFinish(feed), "finished")

\* The most chunks fed to the emulator in one behaviour.
MaxFeedChunks == 3

InitFeed ==
    InitWith({Config(<<>>, "never_frame", 0, 1, 1)}, {1}, {EmptyFrameFinder},
             {Cookie})

NextFeed ==
    \/ EmulatorWrite(MaxFeedChunks)
    \/ ScreenChangeNotified
    \/ RenderNotified
    \/ BatchFinished

SpecFeed == InitFeed /\ [][NextFeed]_vars

\* ------------------------------------------------------------------- claims

\* C1: when #handleApplicationModeStart gets an empty parameter list or a
\* first parameter that is not the session cookie, it answers ABORT, the
\* emulator leaves application mode, no sub-mode is entered, and nothing of
\* BRACKET_START happens: the frames, the blocks, the command line and the
\* environment variables stay as they were.
C1_BadCookieAborts ==
    [][(/\ event'.op = "start"
        /\ (Len(event'.arg) = 0 \/ event'.arg[1] # cookie))
       => /\ event'.action = "ABORT"
          /\ ~emuAppMode'
          /\ applicationMode' = applicationMode
          /\ UNCHANGED <<blockFrames, frames, blocks, lastCommandLine,
                         environment, lastCommandTerminalRow,
                         lastCommandTerminalViewer>>]_vars

\* C1: an introducer with a wrong cookie has been met and aborted.
C1_Witness ==
    /\ event.op = "start"
    /\ event.arg = <<BadCookie, <<"2">>>>
    /\ event.action = "ABORT"
    /\ ~emuAppMode

\* C2: after #handleApplicationModeEnd has returned, whichever sub-mode was
\* active, the sub-mode is NONE and the accumulation buffer is cleared.
C2_ModeResetAtEnd ==
    (event.op = "end" /\ ~event.threw)
        => /\ applicationMode = APPLICATION_MODE_NONE
           /\ applicationModeData = Null

\* The frames of the list that cmd's command has added: DecoratedFrames that
\* were not there before its BRACKET_START.
FramesOfCommand ==
    {f \in DecoratedFrames(frames) \ cmd.before :
        \E i \in 1..Len(blockFrames) : blockFrames[i] = f}

\* The state a BRACKET_START / output / BRACKET_END scenario ends in: neither
\* cap was reached on the way and every output row was complete.
ScenarioEnded ==
    /\ event.op = "end"
    /\ cmd.phase = "done"
    /\ cmd.undisturbed
    /\ cmd.complete

\* C3: under a frame rule that frames the command at BRACKET_START (command
\* line C, cursor at the start of a row), n complete rows of output and then
\* BRACKET_END with exit-code string E leave exactly one new Frame in the
\* list, without a throw; its block has command line C, exit code
\* parseInt(E) and exactly the n output rows, in order.
C3_ScenarioB ==
    (ScenarioEnded /\ cmd.opened /\ cmd.atLineStart)
        => /\ ~event.threw
           /\ Cardinality(DecoratedFrames(frames) \ cmd.before) = 1
           /\ Cardinality(FramesOfCommand) = 1
           /\ \A f \in FramesOfCommand :
                 /\ frames[f].block # NoObject
                 /\ blocks[frames[f].block].kind = "terminal"
                 /\ blocks[frames[f].block].commandLine = cmd.line
                 /\ blocks[frames[f].block].returnCode = ParseInt(cmd.code)
                 /\ blocks[frames[f].block].sb = cmd.rowsOut

\* C3: "ls -la" was framed at BRACKET_START, two rows were written, and
\* BRACKET_END came with "0".
C3_Witness ==
    /\ ScenarioEnded /\ cmd.opened /\ cmd.atLineStart
    /\ cmd.line = Str_ls_la
    /\ cmd.code = <<"0">>
    /\ Len(cmd.rowsOut) = 2
    /\ \E f \in FramesOfCommand :
          /\ frames[f].block # NoObject
          /\ blocks[frames[f].block].returnCode = IntOf(0)

\* The rows the blocks of the list retain, oldest frame first.
RECURSIVE RetainedFrom(_)
RetainedFrom(i) ==
    IF i > Len(blockFrames) THEN <<>>
    ELSE (IF frames[blockFrames[i]].block # NoObject
            THEN blocks[frames[blockFrames[i]].block].sb ELSE <<>>)
         \o RetainedFrom(i + 1)

RetainedRows == RetainedFrom(1)

RowSet(seq) == {seq[i] : i \in 1..Len(seq)}

\* The rows still in the emulator: on the screen, under the cursor, or
\* scrolled off and waiting for the next render.
RowsInEmulator == (RowSet(screen) \cup RowSet(pendingSb) \cup {cursorLine}) \ {0}

\* C4: after a write and the line-cap enforcement it brings, the rows
\* retained in plain scrollback and in all Frames, the screen's rows not
\* counted and one more viewport of size.rows rows allowed for (the rows the
\* enforcement skips as possibly visible), are at most scrollbackMaxLines.
C4_LineCapHolds ==
    event.op = "write"
        => Len(RetainedRows) - rows <= config.scrollbackMaxLines

\* C5: the retained rows are always the most recent contiguous suffix of the
\* history: every row written after a retained row is itself retained or
\* still in the emulator.
C5_RetainedIsSuffix ==
    \A r \in RowSet(RetainedRows) :
        \A q \in (r + 1)..(nextRow - 1) :
            q \in RowSet(RetainedRows) \cup RowsInEmulator

\* C5, Scenario C: after plain output of more than scrollbackMaxLines + rows
\* rows and nothing else, exactly scrollbackMaxLines rows are retained.
C5_ScenarioC ==
    (/\ sequences = 0 /\ event.op = "write"
     /\ nextRow - 1 > config.scrollbackMaxLines + rows)
        => Len(RetainedRows) = config.scrollbackMaxLines

\* The DecoratedFrames of the list that hold a block.
MaterializedFrames ==
    {i \in 1..Len(blockFrames) :
        /\ frames[blockFrames[i]].kind = "decorated"
        /\ frames[blockFrames[i]].block # NoObject}

\* C6: after #laterEnforceScrollbackSize has run, at most scrollbackMaxFrames
\* materialized Frames are in the list.
C6_FrameCapHolds ==
    event.op = "timer"
        => Cardinality(MaterializedFrames) <= config.scrollbackMaxFrames

\* The place of block b's frame in a list of frames fr, 0 if none holds it.
PlaceOfBlock(list, fr, b) ==
    IF \E i \in 1..Len(list) : fr[list[i]].block = b
      THEN CHOOSE i \in 1..Len(list) : fr[list[i]].block = b
      ELSE 0

\* The rows of the blocks and of the emulator, one after the other.
RECURSIVE RowsOfBlocks(_)
RowsOfBlocks(bs) ==
    IF bs = {} THEN <<>>
    ELSE LET b == CHOOSE x \in bs : TRUE
         IN blocks[b].sb \o RowsOfBlocks(bs \ {b})

AllRows ==
    RowsOfBlocks(DOMAIN blocks) \o screen \o pendingSb
        \o (IF cursorLine = 0 THEN <<>> ELSE <<cursorLine>>)

C8_ExclusiveOwnership ==
    /\ \A i, j \in 1..Len(AllRows) : i # j => AllRows[i] # AllRows[j]
    /\ \A f, g \in DOMAIN frames :
          (f # g /\ frames[f].block # NoObject)
              => frames[f].block # frames[g].block
    /\ \A i, j \in 1..Len(blockFrames) :
          i # j => blockFrames[i] # blockFrames[j]

\* C8: BRACKET_END has framed a command retroactively, with rows taken from
\* the block they were in, while an earlier Frame holds a block that was
\* moved out of its SpacerFrame.
C8_Witness ==
    /\ event.op = "end" /\ cmd.phase = "done" /\ ~cmd.opened
    /\ \E f \in FramesOfCommand :
          /\ frames[f].block # NoObject
          /\ blocks[frames[f].block].sb # <<>>

\* C8: BRACKET_END has moved the block of a SpacerFrame into the frame that
\* BRACKET_START had opened.
C8_WitnessMoved ==
    /\ event.op = "end" /\ cmd.phase = "done" /\ cmd.opened /\ cmd.undisturbed
    /\ \E f \in FramesOfCommand :
          /\ frames[f].block # NoObject
          /\ blocks[frames[f].block].sb # <<>>

\* The frame decision as the claim words it: the first entry of the list
\* that matches decides; the global rule decides when none matches.
RuleOfFirstMatch(cfg, commandLine, linesOfOutput) ==
    LET matching == {i \in 1..Len(cfg.commandLineActions) :
                        CommandLineActionMatches(commandLine,
                                                 cfg.commandLineActions[i])}
        first == CHOOSE i \in matching : \A j \in matching : i <= j
    IN IF matching = {}
         THEN FrameRuleSays(cfg.frameRule, cfg.frameRuleLines, linesOfOutput)
         ELSE FrameRuleSays(cfg.commandLineActions[first].frameRule,
                            cfg.commandLineActions[first].frameRuleLines,
                            linesOfOutput)

\* C9: #commandNeedsFrame answers for a command line that is not blank with
\* the rule of the first entry of the ordered list that matches it, whatever
\* later entries match, and with the global rule only when no entry matches.
C9_FirstMatchDecides ==
    (/\ event.op = "decide"
     /\ event.arg.commandLine # Null
     /\ Trim(event.arg.commandLine) # <<>>)
        => (event.action = "frame"
               <=> RuleOfFirstMatch(config, event.arg.commandLine,
                                    event.arg.linesOfOutput))

\* C9: "ls -la" was decided by a first entry (name ls, always frame) against
\* a second entry that matches too and says never.
C9_Witness ==
    /\ event.op = "decide"
    /\ event.arg.commandLine = Str_ls_la
    /\ config.commandLineActions =
           <<Cla(<<"l", "s">>, "name", "always_frame", 0),
             Cla(<<"^", "l">>, "regex", "never_frame", 0)>>
    /\ config.frameRule = "never_frame"
    /\ event.action = "frame"

\* BRACKET_END has ended a command that BRACKET_START left inline, with no
\* earlier frame waiting for a block.
InlineCommandEnded ==
    /\ event.op = "end"
    /\ cmd.phase = "done"
    /\ ~cmd.opened
    /\ ~cmd.waiting

\* The frame rule says yes for the rows the command has written.
ThresholdTestSaysYes ==
    CommandNeedsFrame(config, cmd.line, Len(cmd.rowsOut))

\* C10 as stated: after an inline BRACKET_START with a command line and
\* complete rows of output within the caps, BRACKET_END with a number for
\* the exit code adds a frame
\* only if the frame rule says yes for the lines of output; in every other
\* case the block-frame list is as it was.
C10_OnlyThresholdFrames ==
    (InlineCommandEnded /\ cmd.undisturbed /\ cmd.complete
        /\ Trim(cmd.line) # <<>> /\ ParseInt(cmd.code) # NaN)
        => \/ ThresholdTestSaysYes
           \/ blockFrames = cmd.listBefore

\* C10: after an inline BRACKET_START, BRACKET_END materializes a Frame only
\* if the exit-code string is not "0" or the frame rule says yes for the
\* lines of output; in every other case the BRACKET_END step makes no
\* DecoratedFrame and adds no frame to the block-frame list.
C10_ExitCodeOrThresholdFrames ==
    [][(InlineCommandEnded' /\ cmd'.code = <<"0">> /\ ~ThresholdTestSaysYes')
           => /\ DecoratedFrames(frames') = DecoratedFrames(frames)
              /\ RowSet(blockFrames') \subseteq RowSet(blockFrames)]_vars

\* C10: a command left inline has ended with "0" after one row of output,
\* under a rule that frames at more than one row, and the list is as it was.
C10_Witness ==
    /\ InlineCommandEnded
    /\ cmd.line = Str_ls_la
    /\ config.frameRule = "frame_if_lines"
    /\ cmd.code = <<"0">>
    /\ Len(cmd.rowsOut) = 1
    /\ blockFrames = cmd.listBefore

\* C10: the same command ended with "1" and was framed under the threshold.
C10_WitnessFailedCommand ==
    /\ InlineCommandEnded
    /\ cmd.code = <<"1">>
    /\ Len(cmd.rowsOut) = 1
    /\ ~ThresholdTestSaysYes
    /\ Cardinality(FramesOfCommand) = 1

\* C11: when BRACKET_END ends a command with a payload, not empty, that is
\* no decimal integer, the handler does not throw and no block has a return code that
\* is not a number.
C11_ExitCodeDefaults ==
    (/\ event.op = "end" /\ cmd.phase = "done"
     /\ cmd.code # <<>> /\ ParseInt(cmd.code) = NaN)
        => /\ ~event.threw
           /\ \A b \in DOMAIN blocks : blocks[b].returnCode # NaN

\* C12: when the terminator of a REQUEST_FRAME sequence arrives and the frame
\* finder knows no frame for the identifier received, the terminal (its pty
\* attached) writes the
\* error marker "#error\n" to the pty, and neither an upload is started nor
\* an input filter registered.
C12_UnknownFrameError ==
    [][(/\ event'.op = "end"
        /\ applicationMode = APPLICATION_MODE_REQUEST_FRAME
        /\ frameFinder.present
        /\ applicationModeData \notin frameFinder.known
        /\ pty)
           => /\ event'.pty = <<ErrorMarker>>
              /\ ~event'.threw
              /\ inputStreamFilters' = inputStreamFilters
              /\ uploads' = uploads]_vars

C12_Witness ==
    /\ event.op = "end"
    /\ event.arg = Str_9
    /\ frameFinder.present
    /\ event.pty = <<ErrorMarker>>
    /\ uploads = <<>>

\* C13: the emulator data that follows data with an interrupt byte (0x03)
\* is forwarded to the pty unchanged: the interrupt aborted the transfer and
\* removed its input filter, and normal pty routing has resumed.
C13_InterruptResumesRouting ==
    [][(/\ event.op = "termdata"
        /\ IndexOfETX(event.arg, 1) # 0
        /\ event'.op = "termdata")
           => /\ event'.pty = <<event'.arg>>
              /\ inputStreamFilters' = <<>>]_vars

\* C14: a resize whose row or column count is not positive, of a terminal
\* that has a positive size, is rejected: the rows and columns the terminal
\* has recorded, the size the pty has and the size the emulator has stay what
\* they were, and nothing is thrown.
C14_NonPositiveResizeRejected ==
    [][(/\ event'.op \in {"resize", "visualconfig"}
        /\ (event'.arg[1] <= 0 \/ event'.arg[2] <= 0)
        /\ termRows > 0 /\ termColumns > 0)
           => /\ termRows' = termRows
              /\ termColumns' = termColumns
              /\ ptySize' = ptySize
              /\ emuSize' = emuSize
              /\ ~event'.threw]_vars

\* C15: once a visual configuration is set and the last resize had a positive
\* size, the terminal's recorded rows and columns are that size, the emulator
\* has that size, and the size last given to the attached pty is that size.
C15_DimensionsAreLastApplied ==
    (visualConfig /\ rows > 0 /\ columns > 0)
        => /\ termRows = rows
           /\ termColumns = columns
           /\ emuSize = <<columns, rows>>
           /\ (pty /\ ptySize # <<>>) => ptySize = <<columns, rows>>

C15_Witness ==
    /\ event.op = "resize"
    /\ event.arg = <<2, 1>>
    /\ pty
    /\ ptySize = <<2, 1>>
    /\ emuSize = <<2, 1>>
    /\ termRows = 1
    /\ termColumns = 2

\* C16: cap enforcement is debounced: the batch that writes output, with its
\* render and scrollback-append notifications, enforces neither cap, so it
\* removes no frame from the list and deletes no row of a block; eviction is
\* left to the timer.
C16_EnforcementDebounced ==
    [][event'.op = "write"
          => /\ blockFrames' = blockFrames
             /\ \A b \in DOMAIN blocks :
                    blocks'[b].deleted = blocks[b].deleted]_vars

\* C17: a sequence let in with a mode code other than "2", "3", "4" and "5"
\* selects no sub-mode: the handler that follows its start, for a data chunk
\* or for the terminator, forwards nothing to the download handler, a data
\* chunk is not accumulated, and the terminator opens or closes no frame and
\* starts no upload.
C17_UnknownCodeSelectsNothing ==
    [][(/\ event.op = "start"
        /\ emuAppMode
        /\ CookieAccepted(event.arg)
        /\ Len(event.arg) >= 2
        /\ ModeOfCode(event.arg[2]) = -1
        /\ event'.op \in {"data", "end"})
           => /\ event'.dl = <<>>
              /\ event'.pty = <<>>
              /\ event'.op = "data" => applicationModeData' = applicationModeData
              /\ DecoratedFrames(frames') = DecoratedFrames(frames)
              /\ uploads' = uploads]_vars

\* C18: every entry resets the accumulation buffer, and when the terminator
\* of a BRACKET_START, BRACKET_END or REQUEST_FRAME sequence arrives the
\* buffer, which is the payload the end handler acts on, is the data chunks
\* received since the entry, concatenated in order; a BRACKET_START that
\* completes records the command line cleaned from exactly that payload.
C18_PayloadIsConcatenation ==
    [][/\ event'.op = "start" => applicationModeData' = <<>>
       /\ (/\ event'.op = "end"
           /\ applicationMode \in {APPLICATION_MODE_OUTPUT_BRACKET_START,
                                   APPLICATION_MODE_OUTPUT_BRACKET_END,
                                   APPLICATION_MODE_REQUEST_FRAME})
              => /\ applicationModeData = received
                 /\ event'.arg = received
                 /\ (/\ applicationMode = APPLICATION_MODE_OUTPUT_BRACKET_START
                     /\ ~event'.threw)
                        => lastCommandLine'
                               = CleanCommandLine(received, bracketStyle)]_vars

C18_Witness ==
    /\ event.op = "end"
    /\ event.arg = <<"c", "d", "0">>
    /\ cmd.phase = "running"
    /\ lastCommandLine = <<"c", "d", "0">>
    /\ sequences = MaxProtocolSequences

\* C19: in SHOW_FILE mode each handler makes its one call on the download
\* handler while it runs: the start forwards the parameters after the mode
\* code to handleStart, a data chunk goes to handleData as it is, the
\* terminator calls handleStop; what the download handler answers is the
\* response the emulator gets, and the accumulation buffer stays as the
\* entry left it.
C19_ShowFileForwarded ==
    [][/\ (/\ event'.op = "start"
           /\ event'.arg # <<>>
           /\ event'.arg[1] = cookie
           /\ Len(event'.arg) >= 2
           /\ event'.arg[2] = <<"5">>)
              => /\ event'.dl = <<DownloadCall("handleStart",
                                    SubSeq(event'.arg, 3, Len(event'.arg)))>>
                 /\ event'.action = event'.download
                 /\ applicationMode' = APPLICATION_MODE_SHOW_FILE
                 /\ applicationModeData' = <<>>
       /\ (event'.op = "data" /\ applicationMode = APPLICATION_MODE_SHOW_FILE)
              => /\ event'.dl = <<DownloadCall("handleData", event'.arg)>>
                 /\ event'.action = event'.download
                 /\ applicationModeData' = applicationModeData
       /\ (event'.op = "end" /\ applicationMode = APPLICATION_MODE_SHOW_FILE)
              => /\ event'.dl = <<DownloadCall("handleStop", <<>>)>>
                 /\ event'.action = event'.download
                 /\ applicationModeData' = applicationModeData]_vars

C19_Witness ==
    /\ event.op = "end"
    /\ event.dl = <<DownloadCall("handleStop", <<>>)>>
    /\ applicationMode = APPLICATION_MODE_SHOW_FILE
    /\ received = <<"c", "d", "0">>
    /\ applicationModeData = <<>>

\* C20: the session cookie is the one set at construction: no step changes
\* it, and a sequence that is let in (the response is CONTINUE) carries that
\* cookie as its first parameter.
C20_CookieFixed ==
    [][/\ cookie' = cookie
       /\ (event'.op = "start" /\ event'.action = "CONTINUE")
              => /\ event'.arg # <<>>
                 /\ event'.arg[1] = cookie]_vars

C20_Witness ==
    /\ cookie = BadCookie
    /\ event.op = "start"
    /\ event.action = "ABORT"
    /\ event.arg = <<Cookie, <<"2">>>>
    /\ sequences = MaxProtocolSequences

\* C21: a chunk submitted while a batch is in flight waits in the queue and
\* is processed after that batch has finished, in submission order: a batch
\* begins only when no other is in flight, the batches begin in the order
\* 1, 2, 3 of their submission, every notification is of the batch in
\* flight, and no batch emits its screen-change or its render notification
\* twice.
C21_BatchesNeverOverlap ==
    /\ \A i \in 1..Len(feed.log) :
          IF feed.log[i].kind = "begin"
            THEN /\ i = 1 \/ feed.log[i - 1].kind = "end"
                 /\ feed.log[i].chunk
                      = Cardinality({j \in 1..i : feed.log[j].kind = "begin"})
            ELSE /\ i > 1
                 /\ feed.log[i - 1].kind # "end"
                 /\ feed.log[i - 1].chunk = feed.log[i].chunk
    /\ \A i \in 1..Len(feed.log), j \in 1..Len(feed.log) :
          feed.log[i] = feed.log[j] => i = j
    /\ \A i \in 1..Len(feed.queue) :
          /\ feed.stage # "idle"
          /\ \A j \in 1..Len(feed.log) : feed.log[j].chunk # feed.queue[i]
          /\ \A j \in 1..Len(feed.queue) : i < j => feed.queue[i] < feed.queue[j]

C21_Witness ==
    /\ feed.deferred = {2, 3}
    /\ feed.stage = "rendered"
    /\ feed.cur = 3
    /\ \E i \in 1..Len(feed.log) :
          /\ feed.log[i] = [kind |-> "render", chunk |-> 1]
          /\ i < Len(feed.log)

\* The frames of the list that run: DecoratedFrames without a block.
RunningFrames == 
    {f \in DOMAIN frames :
        /\ \E i \in 1..Len(blockFrames) : blockFrames[i] = f
        /\ frames[f].kind = "decorated"
        /\ frames[f].block = NoObject}

\* C22: when the terminator of a BRACKET_END sequence arrives while one frame
\* opened at BRACKET_START is running, wherever in the list it is, the
\* handler does not throw, that frame gets a block which has the command line
\* and the exit code, and no frame of the list is left running.
C22_RunningFrameFinalized ==
    [][(/\ event'.op = "end"
        /\ applicationMode = APPLICATION_MODE_OUTPUT_BRACKET_END
        /\ Cardinality(RunningFrames) = 1)
           => /\ ~event'.threw
              /\ RunningFrames' = {}
              /\ \A f \in RunningFrames :
                    /\ frames'[f].block # NoObject
                    /\ blocks'[frames'[f].block].commandLine = lastCommandLine
                    /\ blocks'[frames'[f].block].returnCode
                           = ParseInt(applicationModeData)]_vars

\* The rows the emulator holds above the cursor and the rows scrolled off
\* and not yet rendered, after the scrollback of block b, oldest first.
RowsUpToCursor(b) == blocks[b].sb \o pendingSb \o screen

\* C23: when the terminator of a BRACKET_START sequence arrives and the
\* decision is to frame, the rows above the cursor go to the scrollback of
\* the last terminal block (less the rows the line cap deletes), which is
\* then detached from the emulator, and exactly two new frames are appended:
\* a running DecoratedFrame titled with the command line, then a SpacerFrame
\* with a new, empty terminal block attached to the emulator.
C23_FrameOpenedAtStart ==
    [][(/\ event'.op = "end"
        /\ applicationMode = APPLICATION_MODE_OUTPUT_BRACKET_START
        /\ CommandNeedsFrame(config,
                             CleanCommandLine(applicationModeData, bracketStyle),
                             -1))
           => /\ ~event'.threw
              /\ screen' = <<>>
              /\ LET last == frames[blockFrames[Len(blockFrames)]].block
                     cut == blocks'[last].deleted - blocks[last].deleted
                 IN /\ ~blocks'[last].emu
                    /\ blocks'[last].sb
                         = SubSeq(RowsUpToCursor(last), cut + 1,
                                  Len(RowsUpToCursor(last)))
              /\ Len(blockFrames') >= 2
              /\ LET n == Len(blockFrames')
                     d == blockFrames'[n - 1]
                     t == blockFrames'[n]
                 IN /\ d \notin DOMAIN frames
                    /\ t \notin DOMAIN frames
                    /\ frames'[d].kind = "decorated"
                    /\ frames'[d].block = NoObject
                    /\ frames'[d].title
                         = CleanCommandLine(applicationModeData, bracketStyle)
                    /\ frames'[t].kind = "spacer"
                    /\ blocks'[frames'[t].block].emu
                    /\ blocks'[frames'[t].block].sb = <<>>
                    /\ \A i \in 1..(n - 2) : blockFrames'[i] \in DOMAIN frames]_vars

\* The text of s from its first whitespace on, nothing if it has none.
FromFirstWhitespace(s) ==
    IF \E i \in 1..Len(s) : IsSpace(s[i])
      THEN SubSeq(s, CHOOSE i \in 1..Len(s) :
                         IsSpace(s[i]) /\ \A j \in 1..(i - 1) : ~IsSpace(s[j]),
                  Len(s))
      ELSE <<>>

\* C24: the command line a BRACKET_START records is, for the bracket style
\* "bash", the trimmed payload without its leading token (what is left from
\* the first whitespace on), trimmed; for any other style it is the payload
\* as it is.
C24_CommandLineCleaned ==
    [][(/\ event'.op = "end"
        /\ applicationMode = APPLICATION_MODE_OUTPUT_BRACKET_START
        /\ ~event'.threw)
           => lastCommandLine'
                = IF bracketStyle = Str_bash
                    THEN Trim(FromFirstWhitespace(Trim(applicationModeData)))
                    ELSE applicationModeData]_vars

\* The rule that applies to a command line: the first entry of the list that
\* matches it, the global rule when none does.
ApplicableRule(cfg, commandLine) ==
    LET matching == {i \in 1..Len(cfg.commandLineActions) :
                        CommandLineActionMatches(commandLine,
                                                 cfg.commandLineActions[i])}
        first == CHOOSE i \in matching : \A j \in matching : i <= j
    IN IF matching = {}
         THEN [frameRule |-> cfg.frameRule, frameRuleLines |-> cfg.frameRuleLines]
         ELSE [frameRule |-> cfg.commandLineActions[first].frameRule,
               frameRuleLines |-> cfg.commandLineActions[first].frameRuleLines]

\* A frame-if-lines rule applies to the command line, which is not blank.
LinesRuleApplies(commandLine) ==
    /\ commandLine # Null
    /\ Trim(commandLine) # <<>>
    /\ ApplicableRule(config, commandLine).frameRule = "frame_if_lines"

\* Once the cursor is on a fresh line: the rows of the scrollback that have
\* been added to it since BRACKET_START, and the rows above the cursor.
RowsSinceCommandStart ==
    LET s == MoveCursorToFreshLine(Cur)
    IN Cardinality(RowsHeld(s, cmd.block) \ cmd.rowsBefore) + CursorRow(s)

\* C25: a frame-if-lines rule, of the first matching entry or global, frames
\* exactly when a line count is known and greater than its threshold: the
\* BRACKET_START it applies to opens no frame, and the BRACKET_END of an
\* inline command that ended with "0" frames it exactly when the rows added
\* to the scrollback since the command started plus the rows above the cursor
\* are more than the threshold.
C25_LinesRuleNeedsKnownCount ==
    [][(event'.op = "end" /\ ~event'.threw)
           => /\ (/\ applicationMode = APPLICATION_MODE_OUTPUT_BRACKET_START
                  /\ LinesRuleApplies(CleanCommandLine(applicationModeData,
                                                       bracketStyle)))
                     => DecoratedFrames(frames') = DecoratedFrames(frames)
              /\ (/\ applicationMode = APPLICATION_MODE_OUTPUT_BRACKET_END
                  /\ InlineCommandEnded'
                  /\ applicationModeData = <<"0">>
                  /\ LinesRuleApplies(lastCommandLine))
                     => (DecoratedFrames(frames') # DecoratedFrames(frames)
                            <=> RowsSinceCommandStart
                                  > ApplicableRule(config, lastCommandLine).frameRuleLines)]_vars

\* list p is what is left of list s once some of its first elements are gone.
IsSuffix(p, s) ==
    Len(p) <= Len(s) /\ SubSeq(s, Len(s) - Len(p) + 1, Len(s)) = p

\* The frames that have left the block-frame list.
EvictedFrames == DOMAIN frames \ RowSet(blockFrames)

\* C26: the line cap, enforced when a write's render appends rows to the
\* scrollback, and the frame cap, enforced when the debounced timer fires,
\* remove frames from the head of the block-frame list only: the list after
\* the step is a suffix of the list before it, in the same order.
C26_EvictionOldestFirst ==
    [][event'.op \in {"write", "timer"}
           => IsSuffix(blockFrames', blockFrames)]_vars

\* C26: the timer's frame cap has evicted a frame and disposed of its block,
\* and newer frames are left in the list.
C26_Witness ==
    /\ event.op = "timer"
    /\ ~event.threw
    /\ blockFrames # <<>>
    /\ \E f \in EvictedFrames :
          /\ frames[f].block # NoObject
          /\ blocks[frames[f].block].disposed
          /\ \A i \in 1..Len(blockFrames) : blockFrames[i] > f

\* C27: every frame a cap evicts is destroyed: when a write's render (line
\* cap) or the debounced timer (frame cap) takes a frame out of the
\* block-frame list, the frame's block is disposed.
C27_EvictedFramesDestroyed ==
    [][event'.op \in {"write", "timer"}
           => \A f \in RowSet(blockFrames) \ RowSet(blockFrames') :
                 /\ frames'[f].block # NoObject
                 /\ blocks'[frames'[f].block].disposed]_vars

\* The rows the frames of the list and the screen hold.
RowsRetained(bf, fr, bl, scr) ==
    RowSet(scr) \cup
    UNION {RowSet(bl[fr[bf[i]].block].sb) :
              i \in {j \in 1..Len(bf) : fr[bf[j]].block # NoObject}}

\* C28: while an inline command runs, a line cap that trims k rows off the
\* block of #lastCommandTerminalViewer, which holds the mark, lowers
\* #lastCommandTerminalRow by k, not below 0; and the frame BRACKET_END then
\* makes for the command holds exactly the rows output since BRACKET_START
\* that are still retained, in order, and no row from before the command.
C28_MarkFollowsTrim ==
    [][/\ (/\ event'.op = "write"
           /\ cmd.phase = "running"
           /\ ~cmd.opened
           /\ lastCommandTerminalViewer \in DOMAIN frames
           /\ frames[lastCommandTerminalViewer].block # NoObject
           /\ blocks'[frames[lastCommandTerminalViewer].block].deleted
                  > blocks[frames[lastCommandTerminalViewer].block].deleted)
              => LET b == frames[lastCommandTerminalViewer].block
                     k == blocks'[b].deleted - blocks[b].deleted
                 IN lastCommandTerminalRow'
                      = IF lastCommandTerminalRow - k > 0
                          THEN lastCommandTerminalRow - k ELSE 0
       /\ (/\ event'.op = "end"
           /\ ~event'.threw
           /\ InlineCommandEnded')
              => \A d \in DecoratedFrames(frames') \ DecoratedFrames(frames) :
                    /\ IsSuffix(blocks'[frames'[d].block].sb, cmd.rowsOut)
                    /\ RowSet(cmd.rowsOut)
                         \cap RowsRetained(blockFrames', frames', blocks', screen')
                       \subseteq RowSet(blocks'[frames'[d].block].sb)]_vars

\* C29: the size the pty is permitted follows the emulator's reports: a
\* report is forwarded to the attached pty, and once the pty has been given
\* the size reported last, no step leaves it with another one.
C29_HintIsLatestReport ==
    [][/\ (event'.op = "writeBufferSize" /\ pty)
              => flow'.permitted = event'.arg
       /\ (pty /\ flow.reported # <<>> /\ flow.permitted = flow.reported)
              => flow'.permitted = flow'.reported]_vars

\* The block-frame list ends with a SpacerFrame that holds a TerminalBlock,
\* the only block attached to the emulator.
LiveTerminalBlockLast ==
    /\ blockFrames # <<>>
    /\ LET last == blockFrames[Len(blockFrames)]
       IN /\ frames[last].kind = "spacer"
          /\ frames[last].block # NoObject
          /\ blocks[frames[last].block].kind = "terminal"
          /\ {b \in DOMAIN blocks : blocks[b].emu} = {frames[last].block}

\* C30: after every step (bracket sequences, shown files, delete-last-frame
\* commands, cap enforcements) the block-frame list is not empty and ends
\* with a SpacerFrame holding a TerminalBlock, the only block attached to the
\* emulator; a step that enforces a cap or deletes the last frame leaves the
\* last element of the list in place.
C30_LiveTerminalBlockLast ==
    [][/\ LiveTerminalBlockLast'
       /\ event'.op \in {"write", "timer", "deleteLastFrame"}
              => blockFrames'[Len(blockFrames')] = blockFrames[Len(blockFrames)]]_vars

\* C30: the delete-last-frame command has destroyed a frame after a cap has
\* evicted another, and the list still ends with the live terminal block.
C30_Witness ==
    /\ event.op = "deleteLastFrame"
    /\ ~event.threw
    /\ LiveTerminalBlockLast
    /\ \E f \in EvictedFrames : frames[f].kind = "decorated"
                                /\ frames[f].block # NoObject
                                /\ blocks[frames[f].block].disposed
    /\ \E f \in EvictedFrames : frames[f].kind = "spacer"
                                /\ frames[f].block # NoObject
                                /\ ~blocks[frames[f].block].disposed

\* C31: at most one DecoratedFrame of the block-frame list is running
\* (opened by BRACKET_START and still without a block).
C31_OneRunningFrame == Cardinality(RunningFrames) <= 1

\* C32: a write (whose render enforces the line cap) or the debounced timer
\* (which enforces the frame cap) that runs while a DecoratedFrame of the
\* list is still without a block does not throw.
C32_EnforcementNeverThrows ==
    [][(event'.op \in {"write", "timer"} /\ RunningFrames # {})
           => ~event'.threw]_vars

\* C33: when the terminator of a BRACKET_END sequence arrives and no running
\* DecoratedFrame is found, #lastCommandTerminalViewer is a frame of the
\* block-frame list, its block is the one the running command's output went
\* to, and the mark is between 0 and the length of that block's scrollback.
C33_ViewerAndMarkValid ==
    [][(/\ event'.op = "end"
        /\ applicationMode = APPLICATION_MODE_OUTPUT_BRACKET_END
        /\ FindEmptyDecoratedFrame(Cur) = NoObject)
           => /\ lastCommandTerminalViewer \in RowSet(blockFrames)
              /\ frames[lastCommandTerminalViewer].block # NoObject
              /\ cmd.phase = "running"
                    => frames[lastCommandTerminalViewer].block = cmd.block
              /\ 0 <= lastCommandTerminalRow
              /\ lastCommandTerminalRow
                    <= Len(blocks[frames[lastCommandTerminalViewer].block].sb)]_vars

\* C34: with the bracket style "bash", a BRACKET_START whose trimmed payload
\* has no space records an empty command line and opens no frame.
C34_BareHistoryNumberIsEmpty ==
    [][(/\ event'.op = "end"
        /\ applicationMode = APPLICATION_MODE_OUTPUT_BRACKET_START
        /\ bracketStyle = Str_bash
        /\ ~event'.threw
        /\ \A i \in 1..Len(Trim(applicationModeData)) :
               Trim(applicationModeData)[i] # " ")
           => /\ lastCommandLine' = <<>>
              /\ DecoratedFrames(frames') = DecoratedFrames(frames)]_vars

\* C35: after a BRACKET_END the current command line and command are empty,
\* and the last command line and command are the command line of the most
\* recent BRACKET_START and its first word.
C35_LastCommandKept ==
    [][(/\ event'.op = "end"
        /\ applicationMode = APPLICATION_MODE_OUTPUT_BRACKET_END
        /\ ~event'.threw
        /\ lastCommandLine # Null)
           => /\ environment'.currentCommandLine = <<>>
              /\ environment'.currentCommand = <<>>
              /\ environment'.lastCommandLine = lastCommandLine
              /\ environment'.lastCommand = FirstWord(lastCommandLine)]_vars

\* Some upload of a REQUEST_FRAME is in progress.
UploadInProgress == \E u \in DOMAIN uploads : uploads[u] = "uploading"

\* C36: while an upload is in progress, data of the emulator without the
\* interrupt byte is not written to the pty; of data with the interrupt byte
\* nothing but bytes that follow the interrupt byte is written; and an empty
\* text is never written.
C36_UploadSwallowsInput ==
    [][event'.op = "termdata"
           => /\ \A i \in 1..Len(event'.pty) : event'.pty[i] # <<>>
              /\ UploadInProgress
                    => /\ IndexOfETX(event'.arg, 1) = 0 => event'.pty = <<>>
                       /\ \A i \in 1..Len(event'.pty) :
                              IsSuffix(event'.pty[i],
                                       Substring(event'.arg,
                                                 IndexOfETX(event'.arg, 1)))]_vars

\* An interrupt that came with text before and after it during an upload:
\* the upload is aborted and the text after the interrupt went to the pty.
C36_Witness ==
    /\ event.op = "termdata"
    /\ event.arg = <<"a", ETX, "b">>
    /\ event.pty = <<<<"b">>>>
    /\ \E u \in DOMAIN uploads : uploads[u] = "aborted"

\* C37: a resizeTerminalArea called while another is in progress changes
\* neither the recorded rows and columns nor the size of the pty and of the
\* emulator; the guard is clear whenever no call is in progress, so that a
\* call made then is taken up and its size is the recorded one when it ends.
C37_ResizeGuard ==
    [][/\ event'.op = "resizeNested"
            => UNCHANGED <<termRows, termColumns, ptySize, emuSize, environment>>
       /\ resizing' = <<>> => ~resizeGuard'
       /\ (event'.op = "resizeBegin" /\ visualConfig)
            => resizing' = event'.arg
       /\ event'.op = "resizeEnd"
            => /\ termColumns' = resizing[1]
               /\ termRows' = resizing[2]]_vars

\* A call for another size than the one being applied, made while the call
\* in progress has yet to record its size, has returned under the guard.
C37_Witness ==
    /\ event.op = "resizeNested"
    /\ resizeGuard
    /\ event.arg # resizing
    /\ <<termColumns, termRows>> # resizing
    /\ pty

\* C38: the size the pty was last given, by pty.resize of a resize or by
\* the deferred pty.resize of setPty, has a positive number of columns and
\* of rows.
C38_PtySizePositive ==
    ptySize # <<>> => ptySize[1] > 0 /\ ptySize[2] > 0

\* C39: dispose disposes the block of every frame that has one, fires
\* onDispose once, destroys the pty once if there is one and forgets it, and
\* nothing the emulator has for the pty afterwards is written to it.
C39_DisposeCompletes ==
    [][/\ event'.op = "dispose"
            => /\ \A i \in 1..Len(blockFrames) :
                      frames[blockFrames[i]].block # NoObject
                         => blocks'[frames[blockFrames[i]].block].disposed
               /\ disposal'.fired = 1
               /\ disposal'.destroyed = (IF pty THEN 1 ELSE 0)
               /\ ~pty'
       /\ (disposal.called /\ event'.op = "termdata")
            => /\ event'.pty = <<>>
               /\ ~pty]_vars
====
